---- MODULE Spec2Model ----
(***************************************************************************)
(* make-sites: the URL-fragment container codec.                           *)
(*                                                                         *)
(* Three classes named MakeSitesCompression ship in the repository:        *)
(*   Fixed   src/js/compression-fixed.js  (store only; stream decoders)    *)
(*   Stream  src/unnamed/part_000         (CompressionStream based)        *)
(*   Pako    src/unnamed/part_001         (pako gzip, store fallback)      *)
(* Each is modelled operation by operation.  A JavaScript string is the    *)
(* sequence of its UTF-16 code units, a Uint8Array the sequence of its     *)
(* bytes, a base64 string the sequence of its symbols (0..63 the alphabet  *)
(* index, 64 the pad '=', anything else a character outside the alphabet). *)
(***************************************************************************)
EXTENDS Integers, Sequences, FiniteSets, TLC

VARIABLES window, pc, call, made, blob, result, stats
\* the viewer: whether it was made, location.hash, the page, the loads that
\* wait, this.marked of its renderer, the last call of _loadFromURL and the
\* load whose outcome the page shows
VARIABLES started, location, dom, loads, marked, lastLoad, lastSettled
\* the calls of the stream helpers that are in flight, one for each caller,
\* and the fields of the codec instances they are called on
VARIABLES streams, instances

codecVars == <<pc, call, made, blob, result, stats>>
viewerVars == <<started, location, dom, loads, marked, lastLoad, lastSettled>>
streamVars == <<streams, instances>>
vars == <<window, codecVars, viewerVars, streamVars>>

(***************************************************************************)
(* Bounds of the model.                                                    *)
(***************************************************************************)
\* longest content, in characters, handed to compress
MaxLen == 2
\* number of distinct values Date.now() is drawn from
MaxClock == 2

(***************************************************************************)
(* Byte and sequence helpers.                                              *)
(***************************************************************************)
Min(a, b) == IF a < b THEN a ELSE b

\* const x = v; F(x): a local of the source is the parameter of a LAMBDA, so
\* that its value is computed once, where it is declared
With(v, F(_)) == F(v)

\* Uint8Array.prototype.slice(begin, end): 0-based, end exclusive, clamped
slice(bytes, begin, end) ==
    SubSeq(bytes, Min(begin, Len(bytes)) + 1, Min(end, Len(bytes)))

\* Uint8Array.prototype.slice(begin): to the end of the array
sliceFrom(bytes, begin) == slice(bytes, begin, Len(bytes))

\* a faulty variant of setUint32, most significant byte first: what
\* DataView.setUint32(0, n) without the littleEndian argument writes
setUint32BigEndian(n) ==
    <<(n \div 16777216) % 256, (n \div 65536) % 256, (n \div 256) % 256, n % 256>>

\* DataView.setUint32(0, n, true): the four bytes of n, least significant first
setUint32(n) ==
    <<n % 256, (n \div 256) % 256, (n \div 65536) % 256, (n \div 16777216) % 256>>

\* DataView.getUint32(0, true) on a buffer of at least four bytes
getUint32(bytes) ==
    bytes[1] + (256 * bytes[2]) + (65536 * bytes[3]) + (16777216 * bytes[4])

(***************************************************************************)
(* UTF-8: TextEncoder.encode and TextDecoder.decode (WHATWG Encoding).     *)
(***************************************************************************)
IsHighSurrogate(u) == u >= 55296 /\ u <= 56319
IsLowSurrogate(u) == u >= 56320 /\ u <= 57343

Utf8OfCodePoint(cp) ==
    IF cp < 128 THEN <<cp>>
    ELSE IF cp < 2048 THEN <<192 + (cp \div 64), 128 + (cp % 64)>>
    ELSE IF cp < 65536
    THEN <<224 + (cp \div 4096), 128 + ((cp \div 64) % 64), 128 + (cp % 64)>>
    ELSE <<240 + (cp \div 262144), 128 + ((cp \div 4096) % 64),
           128 + ((cp \div 64) % 64), 128 + (cp % 64)>>

\* the bytes that the code unit at position i contributes: a surrogate pair
\* is encoded at its first unit, a lone surrogate as U+FFFD
Utf8Piece(s, i) ==
    IF IsHighSurrogate(s[i])
    THEN IF i < Len(s) /\ IsLowSurrogate(s[i + 1])
         THEN Utf8OfCodePoint(65536 + ((s[i] - 55296) * 1024) + (s[i + 1] - 56320))
         ELSE <<239, 191, 189>>
    ELSE IF IsLowSurrogate(s[i])
    THEN IF i > 1 /\ IsHighSurrogate(s[i - 1]) THEN <<>> ELSE <<239, 191, 189>>
    ELSE Utf8OfCodePoint(s[i])

RECURSIVE Utf8Encode(_, _, _)
\* the encoding of the code units lo..hi, left half then right half
Utf8Encode(s, lo, hi) ==
    IF lo > hi THEN <<>>
    ELSE IF lo = hi THEN Utf8Piece(s, lo)
    ELSE Utf8Encode(s, lo, (lo + hi) \div 2)
         \o Utf8Encode(s, ((lo + hi) \div 2) + 1, hi)

\* new TextEncoder().encode(s)
TextEncode(s) == Utf8Encode(s, 1, Len(s))

Utf16OfCodePoint(cp) ==
    IF cp < 65536 THEN <<cp>>
    ELSE <<55296 + ((cp - 65536) \div 1024), 56320 + ((cp - 65536) % 1024)>>

IsContinuation(c) == c >= 128 /\ c <= 191

\* the number of bytes that follow the lead byte c in a well-formed sequence;
\* -1 for a byte that leads none
Utf8Need(c) ==
    IF c < 128 THEN 0
    ELSE IF c >= 194 /\ c <= 223 THEN 1
    ELSE IF c >= 224 /\ c <= 239 THEN 2
    ELSE IF c >= 240 /\ c <= 244 THEN 3
    ELSE -1

\* how many of the bytes after the lead byte at i continue its sequence
Utf8Good(b, i) ==
    LET c == b[i]
        need == Utf8Need(c)
        lo == IF c = 224 THEN 160 ELSE IF c = 240 THEN 144 ELSE 128
        hi == IF c = 237 THEN 159 ELSE IF c = 244 THEN 143 ELSE 191
        Cont(k) == /\ i + k <= Len(b)
                   /\ b[i + k] >= (IF k = 1 THEN lo ELSE 128)
                   /\ b[i + k] <= (IF k = 1 THEN hi ELSE 191)
    IN  IF need >= 1 /\ Cont(1)
        THEN IF need >= 2 /\ Cont(2)
             THEN IF need >= 3 /\ Cont(3) THEN 3 ELSE 2
             ELSE 1
        ELSE 0

\* the byte at i was taken up by the sequence of a lead byte before it
Utf8Consumed(b, i) ==
    \E k \in 1..3 :
        /\ i - k >= 1
        /\ ~IsContinuation(b[i - k])
        /\ Utf8Good(b, i - k) >= k

\* the code units that the byte at position i contributes: a well-formed
\* sequence decodes at its lead byte; a malformed one decodes to U+FFFD there
\* (the decoder is not fatal), and so does a continuation byte that no
\* sequence took up
Utf16Piece(b, i) ==
    LET c == b[i]
        need == Utf8Need(c)
        cp == IF need = 0 THEN c
              ELSE IF need = 1 THEN ((c - 192) * 64) + (b[i + 1] - 128)
              ELSE IF need = 2
              THEN ((c - 224) * 4096) + ((b[i + 1] - 128) * 64) + (b[i + 2] - 128)
              ELSE ((c - 240) * 262144) + ((b[i + 1] - 128) * 4096)
                   + ((b[i + 2] - 128) * 64) + (b[i + 3] - 128)
    IN  IF IsContinuation(c)
        THEN IF Utf8Consumed(b, i) THEN <<>> ELSE <<65533>>
        ELSE IF need >= 0 /\ Utf8Good(b, i) = need THEN Utf16OfCodePoint(cp)
        ELSE <<65533>>

RECURSIVE Utf8Decode(_, _, _)
\* the decoding of the bytes lo..hi, left half then right half
Utf8Decode(b, lo, hi) ==
    IF lo > hi THEN <<>>
    ELSE IF lo = hi THEN Utf16Piece(b, lo)
    ELSE Utf8Decode(b, lo, (lo + hi) \div 2)
         \o Utf8Decode(b, ((lo + hi) \div 2) + 1, hi)

HasBOM(b) == Len(b) >= 3 /\ b[1] = 239 /\ b[2] = 187 /\ b[3] = 191

\* new TextDecoder().decode(b): ignoreBOM defaults to false, so a leading
\* byte order mark EF BB BF is consumed and not part of the result
TextDecode(b) == Utf8Decode(b, IF HasBOM(b) THEN 4 ELSE 1, Len(b))

(***************************************************************************)
(* base64: btoa(String.fromCharCode(...bytes)) and atob.                   *)
(***************************************************************************)
btoa(b) ==
    LET n == Len(b)
        At(k) == IF k <= n THEN b[k] ELSE 0
        Sym(i) ==
            LET g == 3 * ((i - 1) \div 4)
                k == (i - 1) % 4
            IN  IF k = 0 THEN At(g + 1) \div 4
                ELSE IF k = 1 THEN ((At(g + 1) % 4) * 16) + (At(g + 2) \div 16)
                ELSE IF k = 2
                THEN IF g + 2 > n THEN 64
                     ELSE ((At(g + 2) % 16) * 4) + (At(g + 3) \div 64)
                ELSE IF g + 3 > n THEN 64 ELSE At(g + 3) % 64
    IN  [i \in 1..(4 * ((n + 2) \div 3)) |-> Sym(i)]

\* atob(s), the forgiving-base64 decode: up to two pads are dropped from a
\* string whose length is a multiple of four; a length of 1 mod 4 or a
\* character outside the alphabet throws InvalidCharacterError
atob(s) ==
    LET n0 == Len(s)
        pads == IF n0 % 4 = 0 /\ n0 >= 1 /\ s[n0] = 64
                THEN IF n0 >= 2 /\ s[n0 - 1] = 64 THEN 2 ELSE 1
                ELSE 0
        n == n0 - pads
        Byte(j) ==
            LET q == ((8 * (j - 1)) \div 6) + 1
                r == (8 * (j - 1)) % 6
            IN  IF r = 0 THEN (s[q] * 4) + (s[q + 1] \div 16)
                ELSE IF r = 2 THEN ((s[q] % 16) * 16) + (s[q + 1] \div 4)
                ELSE ((s[q] % 4) * 64) + s[q + 1]
    IN  IF n % 4 = 1 \/ \E i \in 1..n : s[i] < 0 \/ s[i] > 63
        THEN [ok |-> FALSE, bytes |-> <<>>]
        ELSE [ok |-> TRUE, bytes |-> [j \in 1..((n * 6) \div 8) |-> Byte(j)]]

(***************************************************************************)
(* The compression primitives.  They are platform code (CompressionStream, *)
(* DecompressionStream, pako), modelled by their formats: RFC 1951 raw     *)
(* deflate, RFC 1950 zlib and RFC 1952 gzip.  The compressor emits the     *)
(* data as one final stored block, a valid deflate stream that every       *)
(* inflater accepts; the inflater reads stored blocks and rejects          *)
(* everything else that the model feeds it.  Lengths therefore are those   *)
(* of stored data, not of Huffman-coded data.                              *)
(***************************************************************************)
Fail == [ok |-> FALSE, bytes |-> <<>>]
Done(b) == [ok |-> TRUE, bytes |-> b]

\* CompressionStream('deflate-raw'): BFINAL=1, BTYPE=00, LEN, NLEN, data
DeflateRaw(input) ==
    LET n == Len(input)
    IN  <<1, n % 256, n \div 256, 255 - (n % 256), 255 - (n \div 256)>> \o input

\* a faulty variant of InflateRaw that takes a block of no data for an error
InflateRawNoEmptyBlock(b) ==
    IF Len(b) < 6 \/ b[1] % 8 # 1 THEN Fail
    ELSE LET n == b[2] + (256 * b[3])
         IN  IF b[4] # 255 - b[2] \/ b[5] # 255 - b[3] \/ Len(b) # 5 + n
             THEN Fail
             ELSE Done(SubSeq(b, 6, Len(b)))

\* DecompressionStream('deflate-raw'): the stream errors on a reserved or
\* truncated block, on LEN/NLEN that disagree and on bytes after the end
InflateRaw(b) ==
    IF Len(b) < 5 \/ b[1] % 8 # 1 THEN Fail
    ELSE LET n == b[2] + (256 * b[3])
         IN  IF b[4] # 255 - b[2] \/ b[5] # 255 - b[3] \/ Len(b) # 5 + n
             THEN Fail
             ELSE Done(SubSeq(b, 6, Len(b)))

RECURSIVE AdlerSums(_, _, _, _)
\* the sums s1 and s2 of Adler-32 after the bytes lo..hi, from the sums acc
AdlerSums(b, lo, hi, acc) ==
    IF lo > hi THEN acc
    ELSE IF lo = hi
    THEN <<(acc[1] + b[lo]) % 65521, (acc[2] + acc[1] + b[lo]) % 65521>>
    ELSE LET half == AdlerSums(b, lo, (lo + hi) \div 2, acc)
         IN  IF half[1] >= 0 THEN AdlerSums(b, ((lo + hi) \div 2) + 1, hi, half)
             ELSE half

\* Adler-32 of the data, most significant byte first (RFC 1950)
Adler32(b) ==
    LET s == AdlerSums(b, 1, Len(b), <<1, 0>>)
    IN  <<s[2] \div 256, s[2] % 256, s[1] \div 256, s[1] % 256>>

\* DecompressionStream('deflate'): a zlib stream is CMF, FLG, raw deflate
\* data and the Adler-32 of the uncompressed data
InflateZlib(b) ==
    IF \/ Len(b) < 6
       \/ b[1] % 16 # 8
       \/ ((256 * b[1]) + b[2]) % 31 # 0
       \/ (b[2] \div 32) % 2 # 0
    THEN Fail
    ELSE LET raw == InflateRaw(SubSeq(b, 3, Len(b) - 4))
         IN  IF raw.ok /\ Adler32(raw.bytes) = SubSeq(b, Len(b) - 3, Len(b))
             THEN raw
             ELSE Fail

\* CRC-32 (RFC 1952 section 8).  The 32-bit register is held as its high and
\* low 16 bits; the polynomial EDB88320 is the pair <<60856, 33568>>.
RECURSIVE BitXor(_, _, _, _)
\* the bits lo..hi of a XOR b
BitXor(a, b, lo, hi) ==
    IF lo = hi
    THEN (((a \div (2 ^ lo)) + (b \div (2 ^ lo))) % 2) * (2 ^ lo)
    ELSE BitXor(a, b, lo, (lo + hi) \div 2) + BitXor(a, b, ((lo + hi) \div 2) + 1, hi)

\* one shift of the register to the right
CrcStep(reg) ==
    LET hi == reg[1] \div 2
        lo == (reg[2] \div 2) + (32768 * (reg[1] % 2))
    IN  IF reg[2] % 2 = 1 THEN <<BitXor(hi, 60856, 0, 15), BitXor(lo, 33568, 0, 15)>>
        ELSE <<hi, lo>>

RECURSIVE CrcShift(_, _)
\* k shifts of the register
CrcShift(reg, k) ==
    IF k = 1 THEN CrcStep(reg)
    ELSE LET half == CrcShift(reg, k \div 2)
         IN  IF half[1] >= 0 THEN CrcShift(half, k - (k \div 2)) ELSE half

RECURSIVE CrcBytes(_, _, _, _)
\* the register after the bytes lo..hi
CrcBytes(b, lo, hi, reg) ==
    IF lo > hi THEN reg
    ELSE IF lo = hi THEN CrcShift(<<reg[1], BitXor(reg[2], b[lo], 0, 15)>>, 8)
    ELSE LET half == CrcBytes(b, lo, (lo + hi) \div 2, reg)
         IN  IF half[1] >= 0 THEN CrcBytes(b, ((lo + hi) \div 2) + 1, hi, half)
             ELSE half

\* the CRC-32 of the data as four bytes, least significant first
Crc32(b) ==
    LET reg == CrcBytes(b, 1, Len(b), <<65535, 65535>>)
        hi == 65535 - reg[1]
        lo == 65535 - reg[2]
    IN  <<lo % 256, lo \div 256, hi % 256, hi \div 256>>

\* the ten-byte gzip member header: ID1 ID2, CM=8, FLG=0, MTIME=0, XFL=0, OS=3
GzipHeader == <<31, 139, 8, 0, 0, 0, 0, 0, 0, 3>>

\* pako.gzip / CompressionStream('gzip'): header, deflate data, CRC-32, ISIZE
Gzip(input) ==
    GzipHeader \o DeflateRaw(input) \o Crc32(input) \o setUint32(Len(input))

\* pako.ungzip / DecompressionStream('gzip')
Gunzip(b) ==
    IF \/ Len(b) < 18
       \/ SubSeq(b, 1, 4) # SubSeq(GzipHeader, 1, 4)
    THEN Fail
    ELSE LET raw == InflateRaw(SubSeq(b, 11, Len(b) - 8))
         IN  IF /\ raw.ok
                /\ Crc32(raw.bytes) = SubSeq(b, Len(b) - 7, Len(b) - 4)
                /\ setUint32(Len(raw.bytes)) = SubSeq(b, Len(b) - 3, Len(b))
             THEN raw
             ELSE Fail

(***************************************************************************)
(* JavaScript values and JSON.  A value is a record: a number (NaN and     *)
(* -Infinity apart), a string, null, undefined, or an object, which is the *)
(* sequence of its properties in insertion order.                          *)
(***************************************************************************)
Num(n) == [t |-> "number", n |-> n, s |-> <<>>, o |-> <<>>]
Str(s) == [t |-> "string", n |-> 0, s |-> s, o |-> <<>>]
Obj(o) == [t |-> "object", n |-> 0, s |-> <<>>, o |-> o]
Null == [t |-> "null", n |-> 0, s |-> <<>>, o |-> <<>>]
Undefined == [t |-> "undefined", n |-> 0, s |-> <<>>, o |-> <<>>]
NaN == [t |-> "NaN", n |-> 0, s |-> <<>>, o |-> <<>>]
NegInfinity == [t |-> "-Infinity", n |-> 0, s |-> <<>>, o |-> <<>>]

Prop(k, v) == [k |-> k, v |-> v]

\* obj[key]: the last property of that name, undefined when there is none
Get(obj, key) ==
    LET hits == {i \in 1..Len(obj.o) : obj.o[i].k = key}
    IN  IF hits = {} THEN Undefined
        ELSE obj.o[CHOOSE i \in hits : \A j \in hits : j <= i].v

\* property names and string constants of the source, as code units
K_v == <<118>>
K_c == <<99>>
K_f == <<102>>
K_os == <<111, 115>>
K_cs == <<99, 115>>
K_r == <<114>>
K_ts == <<116, 115>>
K_compression == <<99, 111, 109, 112, 114, 101, 115, 115, 105, 111, 110>>
S_none == <<110, 111, 110, 101>>
S_gz == <<103, 122>>
S_gzip == <<103, 122, 105, 112>>
S_br == <<98, 114>>
S_null == <<110, 117, 108, 108>>

RECURSIVE Digits(_)
Digits(n) == IF n < 10 THEN <<48 + n>> ELSE Digits(n \div 10) \o <<48 + (n % 10)>>

RECURSIVE Escaped(_, _, _)
\* the characters lo..hi of a string literal: a quote and a backslash are
\* written with a backslash before them
Escaped(s, lo, hi) ==
    IF lo > hi THEN <<>>
    ELSE IF lo = hi
    THEN (IF s[lo] = 34 \/ s[lo] = 92 THEN <<92, s[lo]>> ELSE <<s[lo]>>)
    ELSE Escaped(s, lo, (lo + hi) \div 2) \o Escaped(s, ((lo + hi) \div 2) + 1, hi)

Quoted(s) == <<34>> \o Escaped(s, 1, Len(s)) \o <<34>>

\* JSON.stringify of a property value: a non-finite number serialises as null
ValueText(v) ==
    IF v.t = "number" THEN (IF v.n < 0 THEN <<45>> \o Digits(-v.n) ELSE Digits(v.n))
    ELSE IF v.t = "string" THEN Quoted(v.s)
    ELSE S_null

RECURSIVE MembersText(_, _, _)
MembersText(o, i, first) ==
    IF i > Len(o) THEN <<>>
    \* a property whose value is undefined is left out
    ELSE IF o[i].v.t = "undefined" THEN MembersText(o, i + 1, first)
    ELSE (IF first THEN <<>> ELSE <<44>>)
         \o Quoted(o[i].k) \o <<58>> \o ValueText(o[i].v)
         \o MembersText(o, i + 1, FALSE)

\* JSON.stringify(obj) for an object of scalar properties
JSONstringify(obj) == <<123>> \o MembersText(obj.o, 1, TRUE) \o <<125>>

NoParse == [ok |-> FALSE, v |-> Undefined, next |-> 0]

RECURSIVE FirstStop(_, _, _)
\* the first position in lo..hi of a quote, a backslash or a control
\* character, 0 when there is none
FirstStop(s, lo, hi) ==
    IF lo > hi THEN 0
    ELSE IF lo = hi THEN (IF s[lo] = 34 \/ s[lo] = 92 \/ s[lo] < 32 THEN lo ELSE 0)
    ELSE LET left == FirstStop(s, lo, (lo + hi) \div 2)
         IN  IF left # 0 THEN left ELSE FirstStop(s, ((lo + hi) \div 2) + 1, hi)

RECURSIVE ScanString(_, _)
\* i is the position after the opening quote
ScanString(s, i) ==
    With(FirstStop(s, i, Len(s)), LAMBDA j :
        IF j = 0 \/ s[j] < 32 THEN NoParse
        ELSE IF s[j] = 34
        THEN [ok |-> TRUE, v |-> Str(SubSeq(s, i, j - 1)), next |-> j + 1]
        ELSE IF j < Len(s) /\ s[j + 1] \in {34, 92, 47}
        THEN With(ScanString(s, j + 2), LAMBDA rest :
                 [rest EXCEPT !.v = Str(SubSeq(s, i, j - 1) \o <<s[j + 1]>>
                                        \o rest.v.s)])
        ELSE NoParse)

IsDigit(c) == c >= 48 /\ c <= 57

RECURSIVE ScanDigits(_, _, _)
ScanDigits(s, i, acc) ==
    IF i <= Len(s) /\ IsDigit(s[i])
    THEN ScanDigits(s, i + 1, (10 * acc) + (s[i] - 48))
    ELSE [ok |-> TRUE, v |-> Num(acc), next |-> i]

\* an integer literal: no leading zero, an optional minus sign
ScanNumber(s, i) ==
    LET neg == s[i] = 45
        j == IF neg THEN i + 1 ELSE i
    IN  IF j > Len(s) \/ ~IsDigit(s[j]) THEN NoParse
        ELSE IF s[j] = 48
        THEN IF j < Len(s) /\ IsDigit(s[j + 1]) THEN NoParse
             ELSE [ok |-> TRUE, v |-> Num(0), next |-> j + 1]
        ELSE LET d == ScanDigits(s, j, 0)
             IN  IF neg THEN [d EXCEPT !.v = Num(-d.v.n)] ELSE d

ScanScalar(s, i) ==
    IF i > Len(s) THEN NoParse
    ELSE IF s[i] = 34 THEN ScanString(s, i + 1)
    ELSE IF s[i] = 45 \/ IsDigit(s[i]) THEN ScanNumber(s, i)
    ELSE IF i + 3 <= Len(s) /\ SubSeq(s, i, i + 3) = S_null
    THEN [ok |-> TRUE, v |-> Null, next |-> i + 4]
    ELSE NoParse

\* one member "name":value; i is the position of the opening quote
ScanMember(s, i) ==
    With(IF i <= Len(s) /\ s[i] = 34 THEN ScanString(s, i + 1) ELSE NoParse,
         LAMBDA key :
    With(IF key.ok /\ key.next <= Len(s) /\ s[key.next] = 58
         THEN ScanScalar(s, key.next + 1)
         ELSE NoParse,
         LAMBDA val :
        [ok |-> val.ok /\ val.next <= Len(s), p |-> Prop(key.v.s, val.v),
         next |-> val.next]))

RECURSIVE ScanMembers(_, _, _)
\* the members from position i on, after the members acc
ScanMembers(s, i, acc) ==
    With(ScanMember(s, i), LAMBDA m :
        IF m.ok /\ s[m.next] = 44 THEN ScanMembers(s, m.next + 1, Append(acc, m.p))
        ELSE IF m.ok /\ s[m.next] = 125
        THEN [ok |-> TRUE, v |-> Obj(Append(acc, m.p)), next |-> m.next + 1]
        ELSE NoParse)

\* JSON.parse(s) on the grammar the model's inputs stay within: an object of
\* string, integer and null properties, or one such scalar, written without
\* white space and with no escapes other than \" \\ \/.  Any other text is a
\* SyntaxError.
JSONparse(s) ==
    With(IF Len(s) >= 2 /\ s[1] = 123
         THEN IF s[2] = 125 THEN [ok |-> TRUE, v |-> Obj(<<>>), next |-> 3]
              ELSE ScanMembers(s, 2, <<>>)
         ELSE ScanScalar(s, 1),
         LAMBDA top :
        IF top.ok /\ top.next = Len(s) + 1 THEN top ELSE NoParse)

(***************************************************************************)
(* Errors.  An Error's message is the sequence of the parts the source     *)
(* concatenates into it.  The texts of the platform's own errors name      *)
(* their kind.                                                             *)
(***************************************************************************)
InvalidCharacterError == <<"InvalidCharacterError">>
RangeError == <<"RangeError: offset is outside the bounds of the DataView">>
SyntaxError == <<"SyntaxError: JSON.parse">>
TypeErrorNullMetadata == <<"TypeError: cannot read properties of null">>
StreamDataError == <<"TypeError: the compressed data was not valid">>
ReferenceErrorNoStream == <<"ReferenceError: DecompressionStream is not defined">>
PakoDataError == <<"pako: incorrect data">>
TypeErrorNullContent == <<"TypeError: cannot read properties of null (reading 'length')">>
TypeErrorBigInt == <<"TypeError: do not know how to serialize a BigInt">>

\* `${value}` in a message: the text of a string value stands as "<string>",
\* every other value as the name of its type
TemplateText(v) == IF v.t = "string" THEN "<string>" ELSE v.t

\* Math.round((1 - cs / os) * 100): NaN for 0/0, -Infinity for cs/0; round
\* takes a half up
Ratio(os, cs) ==
    IF os = 0 THEN (IF cs = 0 THEN NaN ELSE NegInfinity)
    ELSE Num(((200 * (os - cs)) + os) \div (2 * os))

\* the outcome of an internal step that returns {data, metadata} or throws
Decoded(dt, md) ==
    [ok |-> TRUE, data |-> dt, metadata |-> md, message |-> <<>>]
DecodeThrows(msg) ==
    [ok |-> FALSE, data |-> <<>>, metadata |-> Undefined, message |-> msg]

\* the outcome of decompress: {content, metadata}, or an Error with `message`
\* thrown to the caller after `cause` was written to the console
Returns(ct, md) ==
    [ok |-> TRUE, content |-> ct, metadata |-> md,
     message |-> <<>>, cause |-> <<>>]
\* a faulty variant of Throws: the catch block logs the error and falls
\* through, so that the caller is answered with an object without content
ThrowsSwallowed(msg, logged) ==
    [ok |-> TRUE, content |-> <<>>, metadata |-> Undefined,
     message |-> msg, cause |-> logged]

Throws(msg, logged) ==
    [ok |-> FALSE, content |-> <<>>, metadata |-> Undefined,
     message |-> msg, cause |-> logged]

\* the outcome of compress: the transport string, with the arguments that
\* reached _encodeWithMetadata
Encoded(tr, dt, md) ==
    [ok |-> TRUE, transport |-> tr, data |-> dt, metadata |-> md,
     message |-> <<>>, cause |-> <<>>]

\* a faulty variant of CompressThrows: the cause's message is appended to
\* the error, as the decompress of the Pako class does
CompressThrowsWithCause(logged) ==
    [ok |-> FALSE, transport |-> <<>>, data |-> <<>>, metadata |-> Undefined,
     message |-> <<"Failed to compress content: ">> \o logged, cause |-> logged]

\* the catch block of compress: the error caught is written to the console
\* and a new Error is thrown
CompressThrows(logged) ==
    [ok |-> FALSE, transport |-> <<>>, data |-> <<>>, metadata |-> Undefined,
     message |-> <<"Failed to compress content">>, cause |-> logged]

\* arguments that are no strings: compress(null, f) and compress(s, 1n).
\* They stand as sequences that no string is.
NullContent == <<-1>>
BigIntFormat == <<-2>>

(***************************************************************************)
(* Fixed: src/js/compression-fixed.js                                      *)
(***************************************************************************)
\* _encodeWithMetadata(data, metadata)
Fixed_encodeWithMetadata(data, metadata) ==
    LET metadataStr == JSONstringify(metadata)
        metadataBytes == TextEncode(metadataStr)
        lengthBytes == setUint32(Len(metadataBytes))
        combined == lengthBytes \o metadataBytes \o data
    IN  btoa(combined)

\* _decodeWithMetadata(encodedData)
Fixed_decodeWithMetadata(encodedData) ==
    LET wrap == <<"Failed to decode metadata: ">>
    IN
    With(atob(encodedData), LAMBDA binaryStr :
    With(binaryStr.bytes, LAMBDA bytes :
        IF ~binaryStr.ok THEN DecodeThrows(wrap \o InvalidCharacterError)
        ELSE IF Len(bytes) < 4 THEN DecodeThrows(wrap \o RangeError)
        ELSE
        With(getUint32(bytes), LAMBDA metadataLength :
            IF metadataLength > Len(bytes) - 4 \/ metadataLength < 0
            THEN DecodeThrows(wrap \o <<"Invalid metadata length: ",
                                        ToString(metadataLength)>>)
            ELSE
            With(slice(bytes, 4, 4 + metadataLength), LAMBDA metadataBytes :
            With(sliceFrom(bytes, 4 + metadataLength), LAMBDA data :
            With(JSONparse(TextDecode(metadataBytes)), LAMBDA metadata :
                IF ~metadata.ok THEN DecodeThrows(wrap \o SyntaxError)
                ELSE Decoded(data, metadata.v)))))))

Fixed_constructor(win) ==
    [supportsBrotli |-> "CompressionStream" \in win /\ "DecompressionStream" \in win,
     supportsGzip |-> "CompressionStream" \in win /\ "DecompressionStream" \in win]

\* a faulty variant of compress: the payload starts with a byte of the clock
Fixed_compressStamped(content, format, now) ==
    IF content = NullContent THEN CompressThrows(TypeErrorNullContent)
    ELSE IF format = BigIntFormat THEN CompressThrows(TypeErrorBigInt)
    ELSE
    LET encoded == <<now % 256>> \o TextEncode(content)
        metadata == Obj(<<Prop(K_v, Num(1)), Prop(K_c, Str(S_none)),
                          Prop(K_f, Str(format)), Prop(K_os, Num(Len(content))),
                          Prop(K_cs, Num(Len(encoded))), Prop(K_ts, Num(now))>>)
    IN  Encoded(Fixed_encodeWithMetadata(encoded, metadata), encoded, metadata)

Fixed_compress(content, format, now) ==
    \* content.length of null throws, then JSON.stringify of a BigInt
    IF content = NullContent THEN CompressThrows(TypeErrorNullContent)
    ELSE IF format = BigIntFormat THEN CompressThrows(TypeErrorBigInt)
    ELSE
    LET encoded == TextEncode(content)
        metadata == Obj(<<Prop(K_v, Num(1)), Prop(K_c, Str(S_none)),
                          Prop(K_f, Str(format)), Prop(K_os, Num(Len(content))),
                          Prop(K_cs, Num(Len(encoded))), Prop(K_ts, Num(now))>>)
    IN  Encoded(Fixed_encodeWithMetadata(encoded, metadata), encoded, metadata)

Fixed_decompress(this, encodedData) ==
    LET failed == <<"Failed to decompress content">>
    IN
    With(Fixed_decodeWithMetadata(encodedData), LAMBDA d :
    With(Get(d.metadata, K_c), LAMBDA c :
        IF ~d.ok THEN Throws(failed, d.message)
        ELSE IF d.metadata.t = "null" THEN Throws(failed, TypeErrorNullMetadata)
        ELSE IF c = Str(S_gz)
        THEN IF ~this.supportsGzip
             THEN Throws(failed, <<"Gzip decompression not supported in this browser">>)
             ELSE With(Gunzip(d.data), LAMBDA decompressed :
                      IF ~decompressed.ok THEN Throws(failed, StreamDataError)
                      ELSE Returns(TextDecode(decompressed.bytes), d.metadata))
        ELSE IF c = Str(S_br)
        THEN IF ~this.supportsBrotli
             THEN Throws(failed, <<"Brotli decompression not supported in this browser">>)
             ELSE With(InflateZlib(d.data), LAMBDA decompressed :
                      IF ~decompressed.ok THEN Throws(failed, StreamDataError)
                      ELSE Returns(TextDecode(decompressed.bytes), d.metadata))
        \* every other tag, and no tag: the payload is decoded as it is
        ELSE Returns(TextDecode(d.data), d.metadata)))

(***************************************************************************)
(* Stream: src/unnamed/part_000                                            *)
(***************************************************************************)
\* a faulty variant of the constructor: a page whose streams are taken to
\* know gzip only
Stream_constructorGzipOnly(win) ==
    [supportsBrotli |-> FALSE,
     supportsGzip |-> "CompressionStream" \in win]

Stream_constructor(win) ==
    [supportsBrotli |-> "CompressionStream" \in win,
     supportsGzip |-> "CompressionStream" \in win]

\* _compressBrotli(content): the stream is written, closed and read to its end
Stream_compressBrotli(content) == DeflateRaw(TextEncode(content))

\* _compressGzip(content)
Stream_compressGzip(content) == Gzip(TextEncode(content))

\* _createMetadata(original, compressed, compression, format): original is
\* the string, so original.length counts UTF-16 code units
Stream_createMetadata(original, compressed, compression, format, now) ==
    Obj(<<Prop(K_v, Num(1)), Prop(K_c, Str(compression)), Prop(K_f, Str(format)),
          Prop(K_os, Num(Len(original))), Prop(K_cs, Num(Len(compressed))),
          Prop(K_r, Ratio(Len(original), Len(compressed))),
          Prop(K_ts, Num(now))>>)

\* _encodeWithMetadata(data, metadata): the code of the Fixed class
Stream_encodeWithMetadata(data, metadata) == Fixed_encodeWithMetadata(data, metadata)

Stream_compress(this, content, format, now) ==
    \* original.length of null throws in _createMetadata, JSON.stringify of a
    \* BigInt in _encodeWithMetadata
    IF content = NullContent THEN CompressThrows(TypeErrorNullContent)
    ELSE IF format = BigIntFormat THEN CompressThrows(TypeErrorBigInt)
    ELSE IF this.supportsBrotli
    THEN LET brotliResult == Stream_compressBrotli(content)
             metadata == Stream_createMetadata(content, brotliResult, S_br, format, now)
         IN  Encoded(Stream_encodeWithMetadata(brotliResult, metadata),
                     brotliResult, metadata)
    ELSE IF this.supportsGzip
    THEN LET gzipResult == Stream_compressGzip(content)
             metadata == Stream_createMetadata(content, gzipResult, S_gzip, format, now)
         IN  Encoded(Stream_encodeWithMetadata(gzipResult, metadata),
                     gzipResult, metadata)
    ELSE LET encoded == TextEncode(content)
             metadata == Stream_createMetadata(content, encoded, S_none, format, now)
         IN  Encoded(Stream_encodeWithMetadata(encoded, metadata), encoded, metadata)

\* _decodeWithMetadata(encodedData): no check of the length prefix and no
\* try/catch; slice clamps to the end of the buffer
Stream_decodeWithMetadata(encodedData) ==
    With(atob(encodedData), LAMBDA binaryStr :
    With(binaryStr.bytes, LAMBDA combined :
        IF ~binaryStr.ok THEN DecodeThrows(InvalidCharacterError)
        ELSE IF Len(combined) < 4 THEN DecodeThrows(RangeError)
        ELSE
        With(getUint32(combined), LAMBDA metadataLength :
        With(slice(combined, 4, 4 + metadataLength), LAMBDA metadataBytes :
        With(sliceFrom(combined, 4 + metadataLength), LAMBDA data :
        With(JSONparse(TextDecode(metadataBytes)), LAMBDA metadata :
            IF ~metadata.ok THEN DecodeThrows(SyntaxError)
            ELSE Decoded(data, metadata.v)))))))

\* _decompressBrotli(data) and _decompressGzip(data) return the decoded text;
\* new DecompressionStream is a ReferenceError where the window has none
Stream_decompressBrotli(win, data) ==
    IF "DecompressionStream" \notin win THEN DecodeThrows(ReferenceErrorNoStream)
    ELSE With(InflateRaw(data), LAMBDA decompressed :
             IF ~decompressed.ok THEN DecodeThrows(StreamDataError)
             ELSE Decoded(TextDecode(decompressed.bytes), Undefined))

Stream_decompressGzip(win, data) ==
    IF "DecompressionStream" \notin win THEN DecodeThrows(ReferenceErrorNoStream)
    ELSE With(Gunzip(data), LAMBDA decompressed :
             IF ~decompressed.ok THEN DecodeThrows(StreamDataError)
             ELSE Decoded(TextDecode(decompressed.bytes), Undefined))

\* the property of the metadata that decompress switches on
Stream_switchKey == K_compression

Stream_decompress(win, encodedData) ==
    LET failed == <<"Failed to decompress content">>
    IN
    With(Stream_decodeWithMetadata(encodedData), LAMBDA d :
    With(Get(d.metadata, Stream_switchKey), LAMBDA tag :
        IF ~d.ok THEN Throws(failed, d.message)
        ELSE IF d.metadata.t = "null" THEN Throws(failed, TypeErrorNullMetadata)
        ELSE IF tag = Str(S_br) \/ tag = Str(S_gzip)
        THEN With(IF tag = Str(S_br) THEN Stream_decompressBrotli(win, d.data)
                  ELSE Stream_decompressGzip(win, d.data),
                  LAMBDA content :
                 IF ~content.ok THEN Throws(failed, content.message)
                 ELSE Returns(content.data, d.metadata))
        ELSE IF tag = Str(S_none) THEN Returns(TextDecode(d.data), d.metadata)
        ELSE Throws(failed, <<"Unsupported compression: ", TemplateText(tag)>>)))

(***************************************************************************)
(* Pako: src/unnamed/part_001                                              *)
(***************************************************************************)
Pako_constructor(win) == [supportsPako |-> "pako" \in win]

\* the builds of pako a page can load: 1.x converts bytes to a string with
\* its own loop, 2.x with new TextDecoder().decode where there is one
PakoBuilds == {"1.x", "2.x"}

\* pako.gzip(content): the string is converted to UTF-8 and compressed
Pako_gzip(content) == Gzip(TextEncode(content))

\* pako.ungzip(data, {to: 'string'})
Pako_ungzip(build, data) ==
    With(Gunzip(data), LAMBDA inflated :
        IF ~inflated.ok THEN DecodeThrows(PakoDataError)
        ELSE Decoded(IF build = "2.x" THEN TextDecode(inflated.bytes)
                     ELSE Utf8Decode(inflated.bytes, 1, Len(inflated.bytes)),
                     Undefined))

\* a faulty variant of _createMetadata that takes both sizes from the text
Pako_createMetadataSizesOfText(original, compressed, compression, format, now) ==
    Obj(<<Prop(K_v, Num(1)), Prop(K_c, Str(compression)), Prop(K_f, Str(format)),
          Prop(K_os, Num(Len(original))), Prop(K_cs, Num(Len(original))),
          Prop(K_r, Ratio(Len(original), Len(original))),
          Prop(K_ts, Num(now))>>)

\* _createMetadata(original, compressed, compression, format): original is a
\* string at both call sites, so originalSize is original.length
Pako_createMetadata(original, compressed, compression, format, now) ==
    LET originalSize == Len(original)
        compressedSize == Len(compressed)
    IN  Obj(<<Prop(K_v, Num(1)), Prop(K_c, Str(compression)), Prop(K_f, Str(format)),
              Prop(K_os, Num(originalSize)), Prop(K_cs, Num(compressedSize)),
              Prop(K_r, Ratio(originalSize, compressedSize)),
              Prop(K_ts, Num(now))>>)

\* _encodeWithMetadata(data, metadata): the code of the Fixed class
Pako_encodeWithMetadata(data, metadata) == Fixed_encodeWithMetadata(data, metadata)

\* _decodeWithMetadata(encodedData): the code of the Fixed class
Pako_decodeWithMetadata(encodedData) == Fixed_decodeWithMetadata(encodedData)

Pako_compress(this, content, format, now) ==
    \* content.length of null throws in the first statement, JSON.stringify
    \* of a BigInt in _encodeWithMetadata
    IF content = NullContent THEN CompressThrows(TypeErrorNullContent)
    ELSE IF format = BigIntFormat THEN CompressThrows(TypeErrorBigInt)
    ELSE IF this.supportsPako
    THEN LET compressed == Pako_gzip(content)
             metadata == Pako_createMetadata(content, compressed, S_gz, format, now)
         IN  Encoded(Pako_encodeWithMetadata(compressed, metadata), compressed, metadata)
    ELSE LET encoded == TextEncode(content)
             metadata == Pako_createMetadata(content, encoded, S_none, format, now)
         IN  Encoded(Pako_encodeWithMetadata(encoded, metadata), encoded, metadata)

Pako_decompress(this, win, build, encodedData) ==
    LET failed == <<"Failed to decompress content: ">>
    IN
    With(Pako_decodeWithMetadata(encodedData), LAMBDA d :
    With(Get(d.metadata, K_c), LAMBDA c :
        IF ~d.ok THEN Throws(failed \o d.message, d.message)
        ELSE IF d.metadata.t = "null"
        THEN Throws(failed \o TypeErrorNullMetadata, TypeErrorNullMetadata)
        ELSE IF c = Str(S_gz) \/ c = Str(S_gzip)
        THEN IF ~this.supportsPako
             THEN LET e == <<"Pako library not available for gzip decompression">>
                  IN  Throws(failed \o e, e)
             ELSE With(Pako_ungzip(build, d.data), LAMBDA decompressed :
                      IF ~decompressed.ok
                      THEN Throws(failed \o decompressed.message, decompressed.message)
                      ELSE Returns(decompressed.data, d.metadata))
        ELSE IF c = Str(S_br)
        THEN IF "DecompressionStream" \notin win
             THEN LET e == <<"Browser does not support DecompressionStream for Brotli">>
                  IN  Throws(failed \o e, e)
             ELSE With(InflateRaw(d.data), LAMBDA decompressed :
                      IF ~decompressed.ok
                      THEN Throws(failed \o StreamDataError, StreamDataError)
                      ELSE Returns(TextDecode(decompressed.bytes), d.metadata))
        ELSE IF c = Str(S_none) THEN Returns(TextDecode(d.data), d.metadata)
        ELSE LET e == <<"Unsupported compression type: ", TemplateText(c)>>
             IN  Throws(failed \o e, e)))

(***************************************************************************)
(* getStats and _formatBytes, the same in the three classes but for the    *)
(* table of units, the text of a zero and the number of decimals.          *)
(***************************************************************************)
U_Bytes == <<66, 121, 116, 101, 115>>
U_B == <<66>>
U_KB == <<75, 66>>
U_MB == <<77, 66>>
U_GB == <<71, 66>>
S_NaN == <<78, 97, 78>>
S_undefined == <<117, 110, 100, 101, 102, 105, 110, 101, 100>>

\* Math.floor(Math.log(bytes) / Math.log(k)) for k = 1024 and bytes >= 1
FloorLog(bytes) ==
    IF bytes < 1024 THEN 0
    ELSE IF bytes < 1024 * 1024 THEN 1
    ELSE IF bytes < 1024 * 1024 * 1024 THEN 2
    ELSE 3

\* Math.pow(k, i)
Pow(i) ==
    IF i = 0 THEN 1
    ELSE IF i = 1 THEN 1024
    ELSE IF i = 2 THEN 1024 * 1024
    ELSE 1024 * 1024 * 1024

RECURSIVE Padded(_, _)
\* the last `places` decimal digits of n
Padded(n, places) ==
    IF places = 0 THEN <<>>
    ELSE Padded(n \div 10, places - 1) \o <<48 + (n % 10)>>

RECURSIVE FractionText(_, _)
\* the decimals of a number as parseFloat and the conversion to a string
\* leave them: zeros at the end are dropped, and the point with them
FractionText(fraction, places) ==
    IF fraction = 0 THEN <<>>
    ELSE IF fraction % 10 = 0 THEN FractionText(fraction \div 10, places - 1)
    ELSE <<46>> \o Padded(fraction, places)

\* parseFloat((bytes / Math.pow(k, i)).toFixed(places)) as a string: the
\* quotient is rounded to `places` decimals, a half upwards
FixedText(bytes, i, places) ==
    With(IF places = 1 THEN 10 ELSE 100, LAMBDA scale :
    With(((2 * bytes * scale) + Pow(i)) \div (2 * Pow(i)), LAMBDA scaled :
        Digits(scaled \div scale) \o FractionText(scaled % scale, places)))

\* the body of _formatBytes.  Math.log of a negative number is NaN, so i is
\* NaN, the quotient is NaN and sizes[NaN] is undefined; an index past the
\* table is undefined too
formatBytes(bytes, zero, sizes, places) ==
    IF bytes = 0 THEN zero
    ELSE IF bytes < 0 THEN S_NaN \o <<32>> \o S_undefined
    ELSE FixedText(bytes, FloorLog(bytes), places) \o <<32>>
         \o (IF FloorLog(bytes) + 1 <= Len(sizes)
             THEN sizes[FloorLog(bytes) + 1] ELSE S_undefined)

Fixed_formatBytes(bytes) ==
    formatBytes(bytes, <<48, 32>> \o U_Bytes, <<U_Bytes, U_KB, U_MB, U_GB>>, 2)

Stream_formatBytes(bytes) ==
    formatBytes(bytes, <<48, 32>> \o U_B, <<U_B, U_KB, U_MB>>, 1)

Pako_formatBytes(bytes) ==
    formatBytes(bytes, <<48, 32>> \o U_Bytes, <<U_Bytes, U_KB, U_MB, U_GB>>, 2)

\* what getStats returns, or the exception of atob that it lets through
Stats(original, originalSize, compressedSize, ratio, readable) ==
    [ok |-> TRUE, original |-> original, originalSize |-> originalSize,
     compressedSize |-> compressedSize, ratio |-> ratio,
     readable |-> readable, cause |-> <<>>]

StatsThrows(original, thrown) ==
    [ok |-> FALSE, original |-> original, originalSize |-> 0,
     compressedSize |-> 0, ratio |-> Undefined,
     readable |-> [original |-> <<>>, compressed |-> <<>>, saved |-> <<>>],
     cause |-> thrown]

\* a faulty variant of getStats: the sizes are read from the metadata of the
\* container, os and cs
Pako_getStatsOfMetadata(original, compressed) ==
    With(Pako_decodeWithMetadata(compressed), LAMBDA d :
        IF ~d.ok THEN StatsThrows(original, InvalidCharacterError)
        ELSE With(Get(d.metadata, K_os).n, LAMBDA originalSize :
             With(Get(d.metadata, K_cs).n, LAMBDA compressedSize :
                 Stats(original, originalSize, compressedSize,
                       Ratio(originalSize, compressedSize),
                       [original |-> Pako_formatBytes(originalSize),
                        compressed |-> Pako_formatBytes(compressedSize),
                        saved |-> Pako_formatBytes(originalSize - compressedSize)]))))

Fixed_getStats(original, compressed) ==
    With(atob(compressed), LAMBDA binary :
        IF ~binary.ok THEN StatsThrows(original, InvalidCharacterError)
        ELSE With(Len(TextEncode(original)), LAMBDA originalSize :
             With(Len(binary.bytes), LAMBDA compressedSize :
                 Stats(original, originalSize, compressedSize,
                       Ratio(originalSize, compressedSize),
                       [original |-> Fixed_formatBytes(originalSize),
                        compressed |-> Fixed_formatBytes(compressedSize),
                        saved |-> Fixed_formatBytes(originalSize - compressedSize)]))))

Stream_getStats(original, compressed) ==
    With(atob(compressed), LAMBDA binary :
        IF ~binary.ok THEN StatsThrows(original, InvalidCharacterError)
        ELSE With(Len(TextEncode(original)), LAMBDA originalSize :
             With(Len(binary.bytes), LAMBDA compressedSize :
                 Stats(original, originalSize, compressedSize,
                       Ratio(originalSize, compressedSize),
                       [original |-> Stream_formatBytes(originalSize),
                        compressed |-> Stream_formatBytes(compressedSize),
                        saved |-> Stream_formatBytes(originalSize - compressedSize)]))))

Pako_getStats(original, compressed) ==
    With(atob(compressed), LAMBDA binary :
        IF ~binary.ok THEN StatsThrows(original, InvalidCharacterError)
        ELSE With(Len(TextEncode(original)), LAMBDA originalSize :
             With(Len(binary.bytes), LAMBDA compressedSize :
                 Stats(original, originalSize, compressedSize,
                       Ratio(originalSize, compressedSize),
                       [original |-> Pako_formatBytes(originalSize),
                        compressed |-> Pako_formatBytes(compressedSize),
                        saved |-> Pako_formatBytes(originalSize - compressedSize)]))))

(***************************************************************************)
(* The literal texts of the renderer, as code units.                       *)
(***************************************************************************)
\* generateTOC: the template of lines 527-529, part 1 of 4 (before ${indent})
tocItem_1 ==
    <<60, 108, 105, 32, 115, 116, 121, 108, 101, 61, 34, 109, 97, 114, 103, 105, 110, 45,
      108, 101, 102, 116, 58, 32>>

\* generateTOC: the template of lines 527-529, part 2 of 4 (before ${id})
tocItem_2 ==
    <<112, 120, 34, 62, 10, 32, 32, 32, 32, 32, 32, 32, 32, 32, 32, 32, 32, 32,
      32, 32, 32, 60, 97, 32, 104, 114, 101, 102, 61, 34, 35>>

\* generateTOC: the template of lines 527-529, part 3 of 4 (before ${heading.textContent})
tocItem_3 == <<34, 62>>

\* generateTOC: the template of lines 527-529, part 4 of 4
tocItem_4 ==
    <<60, 47, 97, 62, 10, 32, 32, 32, 32, 32, 32, 32, 32, 32, 32, 32, 32, 60,
      47, 108, 105, 62>>

\* generateTOC: '<div class="table-of-contents"><h3>Contents</h3><ul>'
tocOpen ==
    <<60, 100, 105, 118, 32, 99, 108, 97, 115, 115, 61, 34, 116, 97, 98, 108, 101, 45,
      111, 102, 45, 99, 111, 110, 116, 101, 110, 116, 115, 34, 62, 60, 104, 51, 62, 67,
      111, 110, 116, 101, 110, 116, 115, 60, 47, 104, 51, 62, 60, 117, 108, 62>>

\* generateTOC: '</ul></div>'
tocClose == <<60, 47, 117, 108, 62, 60, 47, 100, 105, 118, 62>>

\* `heading-${index}`
U_heading == <<104, 101, 97, 100, 105, 110, 103, 45>>

U_amp == <<38, 97, 109, 112, 59>>

U_lt == <<38, 108, 116, 59>>

U_gt == <<38, 103, 116, 59>>

U_nbsp == <<38, 110, 98, 115, 112, 59>>

P_script == <<60, 115, 99, 114, 105, 112, 116>>

P_endscript == <<60, 47, 115, 99, 114, 105, 112, 116, 62>>

P_javascript == <<106, 97, 118, 97, 115, 99, 114, 105, 112, 116, 58>>

R_blocked == <<98, 108, 111, 99, 107, 101, 100, 58>>

P_on == <<111, 110>>

R_datablocked == <<100, 97, 116, 97, 45, 98, 108, 111, 99, 107, 101, 100, 61>>

S_html == <<104, 116, 109, 108>>

S_markdown == <<109, 97, 114, 107, 100, 111, 119, 110>>

S_md == <<109, 100>>

S_json == <<106, 115, 111, 110>>

S_text == <<116, 101, 120, 116>>

S_txt == <<116, 120, 116>>

\* error.message of the SyntaxError of JSON.parse, as code units
U_SyntaxError ==
    <<83, 121, 110, 116, 97, 120, 69, 114, 114, 111, 114, 58, 32, 74, 83, 79, 78, 46,
      112, 97, 114, 115, 101>>

U_Compression == <<67, 111, 109, 112, 114, 101, 115, 115, 105, 111, 110, 58, 32>>

U_Format == <<70, 111, 114, 109, 97, 116, 58, 32>>

U_saved == <<37, 32, 115, 97, 118, 101, 100, 41>>

\* _renderHTML: the template of lines 307-311, part 1 of 2 (before ${sanitized})
renderHTML_1 ==
    <<10, 32, 32, 32, 32, 32, 32, 32, 32, 32, 32, 32, 32, 60, 100, 105, 118, 32,
      99, 108, 97, 115, 115, 61, 34, 104, 116, 109, 108, 45, 99, 111, 110, 116, 101, 110,
      116, 34, 62, 10, 32, 32, 32, 32, 32, 32, 32, 32, 32, 32, 32, 32, 32, 32,
      32, 32>>

\* _renderHTML: the template of lines 307-311, part 2 of 2
renderHTML_2 ==
    <<10, 32, 32, 32, 32, 32, 32, 32, 32, 32, 32, 32, 32, 60, 47, 100, 105, 118,
      62, 10, 32, 32, 32, 32, 32, 32, 32, 32>>

\* _renderMarkdown: the template of lines 328-332, part 1 of 2 (before ${html})
renderMarkdown_1 ==
    <<10, 32, 32, 32, 32, 32, 32, 32, 32, 32, 32, 32, 32, 32, 32, 32, 32, 60,
      100, 105, 118, 32, 99, 108, 97, 115, 115, 61, 34, 109, 97, 114, 107, 100, 111, 119,
      110, 45, 99, 111, 110, 116, 101, 110, 116, 34, 62, 10, 32, 32, 32, 32, 32, 32,
      32, 32, 32, 32, 32, 32, 32, 32, 32, 32, 32, 32, 32, 32>>

\* _renderMarkdown: the template of lines 328-332, part 2 of 2
renderMarkdown_2 ==
    <<10, 32, 32, 32, 32, 32, 32, 32, 32, 32, 32, 32, 32, 32, 32, 32, 32, 60,
      47, 100, 105, 118, 62, 10, 32, 32, 32, 32, 32, 32, 32, 32, 32, 32, 32, 32>>

\* _renderJSON: the template of lines 348-359, part 1 of 4 (before ${this._countObjects(parsed)})
renderJSON_1 ==
    <<10, 32, 32, 32, 32, 32, 32, 32, 32, 32, 32, 32, 32, 32, 32, 32, 32, 60,
      100, 105, 118, 32, 99, 108, 97, 115, 115, 61, 34, 106, 115, 111, 110, 45, 99, 111,
      110, 116, 101, 110, 116, 34, 62, 10, 32, 32, 32, 32, 32, 32, 32, 32, 32, 32,
      32, 32, 32, 32, 32, 32, 32, 32, 32, 32, 60, 100, 105, 118, 32, 99, 108, 97,
      115, 115, 61, 34, 99, 111, 110, 116, 101, 110, 116, 45, 104, 101, 97, 100, 101, 114,
      34, 62, 10, 32, 32, 32, 32, 32, 32, 32, 32, 32, 32, 32, 32, 32, 32, 32,
      32, 32, 32, 32, 32, 32, 32, 32, 32, 60, 104, 50, 62, 74, 83, 79, 78, 32,
      68, 97, 116, 97, 60, 47, 104, 50, 62, 10, 32, 32, 32, 32, 32, 32, 32, 32,
      32, 32, 32, 32, 32, 32, 32, 32, 32, 32, 32, 32, 32, 32, 32, 32, 60, 100,
      105, 118, 32, 99, 108, 97, 115, 115, 61, 34, 106, 115, 111, 110, 45, 115, 116, 97,
      116, 115, 34, 62, 10, 32, 32, 32, 32, 32, 32, 32, 32, 32, 32, 32, 32, 32,
      32, 32, 32, 32, 32, 32, 32, 32, 32, 32, 32, 32, 32, 32, 32, 60, 115, 112,
      97, 110, 32, 99, 108, 97, 115, 115, 61, 34, 115, 116, 97, 116, 34, 62, 79, 98,
      106, 101, 99, 116, 115, 58, 32>>

\* _renderJSON: the template of lines 348-359, part 2 of 4 (before ${this._formatBytes(content.length)})
renderJSON_2 ==
    <<60, 47, 115, 112, 97, 110, 62, 10, 32, 32, 32, 32, 32, 32, 32, 32, 32, 32,
      32, 32, 32, 32, 32, 32, 32, 32, 32, 32, 32, 32, 32, 32, 32, 32, 32, 32,
      60, 115, 112, 97, 110, 32, 99, 108, 97, 115, 115, 61, 34, 115, 116, 97, 116, 34,
      62, 83, 105, 122, 101, 58, 32>>

\* _renderJSON: the template of lines 348-359, part 3 of 4 (before ${this._escapeHTML(formatted)})
renderJSON_3 ==
    <<60, 47, 115, 112, 97, 110, 62, 10, 32, 32, 32, 32, 32, 32, 32, 32, 32, 32,
      32, 32, 32, 32, 32, 32, 32, 32, 32, 32, 32, 32, 32, 32, 60, 47, 100, 105,
      118, 62, 10, 32, 32, 32, 32, 32, 32, 32, 32, 32, 32, 32, 32, 32, 32, 32,
      32, 32, 32, 32, 32, 60, 47, 100, 105, 118, 62, 10, 32, 32, 32, 32, 32, 32,
      32, 32, 32, 32, 32, 32, 32, 32, 32, 32, 32, 32, 32, 32, 60, 112, 114, 101,
      32, 99, 108, 97, 115, 115, 61, 34, 106, 115, 111, 110, 45, 100, 105, 115, 112, 108,
      97, 121, 34, 62, 60, 99, 111, 100, 101, 32, 99, 108, 97, 115, 115, 61, 34, 108,
      97, 110, 103, 117, 97, 103, 101, 45, 106, 115, 111, 110, 34, 62>>

\* _renderJSON: the template of lines 348-359, part 4 of 4
renderJSON_4 ==
    <<60, 47, 99, 111, 100, 101, 62, 60, 47, 112, 114, 101, 62, 10, 32, 32, 32, 32,
      32, 32, 32, 32, 32, 32, 32, 32, 32, 32, 32, 32, 60, 47, 100, 105, 118, 62,
      10, 32, 32, 32, 32, 32, 32, 32, 32, 32, 32, 32, 32>>

\* _renderJSON (catch): the template of lines 361-371, part 1 of 3 (before ${error.message})
renderJSONError_1 ==
    <<10, 32, 32, 32, 32, 32, 32, 32, 32, 32, 32, 32, 32, 32, 32, 32, 32, 60,
      100, 105, 118, 32, 99, 108, 97, 115, 115, 61, 34, 106, 115, 111, 110, 45, 99, 111,
      110, 116, 101, 110, 116, 32, 101, 114, 114, 111, 114, 34, 62, 10, 32, 32, 32, 32,
      32, 32, 32, 32, 32, 32, 32, 32, 32, 32, 32, 32, 32, 32, 32, 32, 60, 100,
      105, 118, 32, 99, 108, 97, 115, 115, 61, 34, 99, 111, 110, 116, 101, 110, 116, 45,
      104, 101, 97, 100, 101, 114, 34, 62, 10, 32, 32, 32, 32, 32, 32, 32, 32, 32,
      32, 32, 32, 32, 32, 32, 32, 32, 32, 32, 32, 32, 32, 32, 32, 60, 104, 50,
      62, 73, 110, 118, 97, 108, 105, 100, 32, 74, 83, 79, 78, 60, 47, 104, 50, 62,
      10, 32, 32, 32, 32, 32, 32, 32, 32, 32, 32, 32, 32, 32, 32, 32, 32, 32,
      32, 32, 32, 60, 47, 100, 105, 118, 62, 10, 32, 32, 32, 32, 32, 32, 32, 32,
      32, 32, 32, 32, 32, 32, 32, 32, 32, 32, 32, 32, 60, 100, 105, 118, 32, 99,
      108, 97, 115, 115, 61, 34, 101, 114, 114, 111, 114, 45, 109, 101, 115, 115, 97, 103,
      101, 34, 62, 10, 32, 32, 32, 32, 32, 32, 32, 32, 32, 32, 32, 32, 32, 32,
      32, 32, 32, 32, 32, 32, 32, 32, 32, 32, 60, 112, 62, 70, 97, 105, 108, 101,
      100, 32, 116, 111, 32, 112, 97, 114, 115, 101, 32, 74, 83, 79, 78, 58, 32>>

\* _renderJSON (catch): the template of lines 361-371, part 2 of 3 (before ${this._escapeHTML(content)})
renderJSONError_2 ==
    <<60, 47, 112, 62, 10, 32, 32, 32, 32, 32, 32, 32, 32, 32, 32, 32, 32, 32,
      32, 32, 32, 32, 32, 32, 32, 60, 47, 100, 105, 118, 62, 10, 32, 32, 32, 32,
      32, 32, 32, 32, 32, 32, 32, 32, 32, 32, 32, 32, 32, 32, 32, 32, 60, 112,
      114, 101, 32, 99, 108, 97, 115, 115, 61, 34, 114, 97, 119, 45, 99, 111, 110, 116,
      101, 110, 116, 34, 62, 60, 99, 111, 100, 101, 62>>

\* _renderJSON (catch): the template of lines 361-371, part 3 of 3
renderJSONError_3 ==
    <<60, 47, 99, 111, 100, 101, 62, 60, 47, 112, 114, 101, 62, 10, 32, 32, 32, 32,
      32, 32, 32, 32, 32, 32, 32, 32, 32, 32, 32, 32, 60, 47, 100, 105, 118, 62,
      10, 32, 32, 32, 32, 32, 32, 32, 32, 32, 32, 32, 32>>

\* _renderText: the template of lines 383-395, part 1 of 5 (before ${lines})
renderText_1 ==
    <<10, 32, 32, 32, 32, 32, 32, 32, 32, 32, 32, 32, 32, 60, 100, 105, 118, 32,
      99, 108, 97, 115, 115, 61, 34, 116, 101, 120, 116, 45, 99, 111, 110, 116, 101, 110,
      116, 34, 62, 10, 32, 32, 32, 32, 32, 32, 32, 32, 32, 32, 32, 32, 32, 32,
      32, 32, 60, 100, 105, 118, 32, 99, 108, 97, 115, 115, 61, 34, 99, 111, 110, 116,
      101, 110, 116, 45, 104, 101, 97, 100, 101, 114, 34, 62, 10, 32, 32, 32, 32, 32,
      32, 32, 32, 32, 32, 32, 32, 32, 32, 32, 32, 32, 32, 32, 32, 60, 104, 50,
      62, 84, 101, 120, 116, 32, 67, 111, 110, 116, 101, 110, 116, 60, 47, 104, 50, 62,
      10, 32, 32, 32, 32, 32, 32, 32, 32, 32, 32, 32, 32, 32, 32, 32, 32, 32,
      32, 32, 32, 60, 100, 105, 118, 32, 99, 108, 97, 115, 115, 61, 34, 116, 101, 120,
      116, 45, 115, 116, 97, 116, 115, 34, 62, 10, 32, 32, 32, 32, 32, 32, 32, 32,
      32, 32, 32, 32, 32, 32, 32, 32, 32, 32, 32, 32, 32, 32, 32, 32, 60, 115,
      112, 97, 110, 32, 99, 108, 97, 115, 115, 61, 34, 115, 116, 97, 116, 34, 62, 76,
      105, 110, 101, 115, 58, 32>>

\* _renderText: the template of lines 383-395, part 2 of 5 (before ${words})
renderText_2 ==
    <<60, 47, 115, 112, 97, 110, 62, 10, 32, 32, 32, 32, 32, 32, 32, 32, 32, 32,
      32, 32, 32, 32, 32, 32, 32, 32, 32, 32, 32, 32, 32, 32, 60, 115, 112, 97,
      110, 32, 99, 108, 97, 115, 115, 61, 34, 115, 116, 97, 116, 34, 62, 87, 111, 114,
      100, 115, 58, 32>>

\* _renderText: the template of lines 383-395, part 3 of 5 (before ${content.length})
renderText_3 ==
    <<60, 47, 115, 112, 97, 110, 62, 10, 32, 32, 32, 32, 32, 32, 32, 32, 32, 32,
      32, 32, 32, 32, 32, 32, 32, 32, 32, 32, 32, 32, 32, 32, 60, 115, 112, 97,
      110, 32, 99, 108, 97, 115, 115, 61, 34, 115, 116, 97, 116, 34, 62, 67, 104, 97,
      114, 97, 99, 116, 101, 114, 115, 58, 32>>

\* _renderText: the template of lines 383-395, part 4 of 5 (before ${this._escapeHTML(content)})
renderText_4 ==
    <<60, 47, 115, 112, 97, 110, 62, 10, 32, 32, 32, 32, 32, 32, 32, 32, 32, 32,
      32, 32, 32, 32, 32, 32, 32, 32, 32, 32, 60, 47, 100, 105, 118, 62, 10, 32,
      32, 32, 32, 32, 32, 32, 32, 32, 32, 32, 32, 32, 32, 32, 32, 60, 47, 100,
      105, 118, 62, 10, 32, 32, 32, 32, 32, 32, 32, 32, 32, 32, 32, 32, 32, 32,
      32, 32, 60, 112, 114, 101, 32, 99, 108, 97, 115, 115, 61, 34, 116, 101, 120, 116,
      45, 100, 105, 115, 112, 108, 97, 121, 34, 62>>

\* _renderText: the template of lines 383-395, part 5 of 5
renderText_5 ==
    <<60, 47, 112, 114, 101, 62, 10, 32, 32, 32, 32, 32, 32, 32, 32, 32, 32, 32,
      32, 60, 47, 100, 105, 118, 62, 10, 32, 32, 32, 32, 32, 32, 32, 32>>

\* _renderBasicMarkdown: the template of lines 458-462, part 1 of 2 (before ${html})
renderBasicMarkdown_1 ==
    <<10, 32, 32, 32, 32, 32, 32, 32, 32, 32, 32, 32, 32, 60, 100, 105, 118, 32,
      99, 108, 97, 115, 115, 61, 34, 109, 97, 114, 107, 100, 111, 119, 110, 45, 99, 111,
      110, 116, 101, 110, 116, 32, 98, 97, 115, 105, 99, 34, 62, 10, 32, 32, 32, 32,
      32, 32, 32, 32, 32, 32, 32, 32, 32, 32, 32, 32>>

\* _renderBasicMarkdown: the template of lines 458-462, part 2 of 2
renderBasicMarkdown_2 ==
    <<10, 32, 32, 32, 32, 32, 32, 32, 32, 32, 32, 32, 32, 60, 47, 100, 105, 118,
      62, 10, 32, 32, 32, 32, 32, 32, 32, 32>>

(***************************************************************************)
(* MakeSitesRenderer: src/unnamed/part_001, lines 265-536.  A string of    *)
(* HTML is the sequence of its code units.  Case is folded for the ASCII   *)
(* letters, the only letters of the model's texts.                         *)
(***************************************************************************)
ToLower(c) == IF c >= 65 /\ c <= 90 THEN c + 32 ELSE c
ToUpper(c) == IF c >= 97 /\ c <= 122 THEN c - 32 ELSE c
toLowerCase(s) == [i \in 1..Len(s) |-> ToLower(s[i])]
toUpperCase(s) == [i \in 1..Len(s) |-> ToUpper(s[i])]

\* \w and \s of a regular expression
IsWord(c) ==
    \/ c >= 48 /\ c <= 57
    \/ c >= 65 /\ c <= 90
    \/ c >= 97 /\ c <= 122
    \/ c = 95
IsSpace(c) == c \in {9, 10, 11, 12, 13, 32, 160, 5760, 8232, 8233, 8239, 8287, 12288, 65279}
                    \cup (8192..8202)

\* the pattern p stands in s at position i, whatever the case of the letters
MatchAt(s, i, p) ==
    /\ i >= 1
    /\ i + Len(p) - 1 <= Len(s)
    /\ \A n \in 1..Len(p) : ToLower(s[i + n - 1]) = ToLower(p[n])

Least(set) == IF set = {} THEN 0 ELSE CHOOSE i \in set : \A j \in set : i <= j

\* the first position from `from` on where p stands in s, 0 when there is none
IndexOf(s, p, from) == Least({i \in from..Len(s) : MatchAt(s, i, p)})

\* the first position from i on that holds no word character (no white
\* space), Len(s) + 1 when the run goes to the end
WordRunEnd(s, i) == Least({j \in i..(Len(s) + 1) : j = Len(s) + 1 \/ ~IsWord(s[j])})
SpaceRunEnd(s, i) == Least({j \in i..(Len(s) + 1) : j = Len(s) + 1 \/ ~IsSpace(s[j])})

RECURSIVE EscapedHTML(_, _, _)
EscapedHTML(s, lo, hi) ==
    IF lo > hi THEN <<>>
    ELSE IF lo = hi
    THEN (IF s[lo] = 38 THEN U_amp
          ELSE IF s[lo] = 60 THEN U_lt
          ELSE IF s[lo] = 62 THEN U_gt
          ELSE IF s[lo] = 160 THEN U_nbsp
          ELSE <<s[lo]>>)
    ELSE EscapedHTML(s, lo, (lo + hi) \div 2)
         \o EscapedHTML(s, ((lo + hi) \div 2) + 1, hi)

\* _escapeHTML(str): the text is set as textContent and read as innerHTML
escapeHTML(str) == EscapedHTML(str, 1, Len(str))

\* /<script\b[^<]*(?:(?!<\/script>)<[^<]*)*<\/script>/gi: the position of the
\* first <script followed by a word boundary, from `from` on
ScriptOpen(s, from) ==
    Least({i \in from..Len(s) :
              MatchAt(s, i, P_script) /\ i + 7 <= Len(s) /\ ~IsWord(s[i + 7])})

RECURSIVE RemoveScripts(_, _)
\* the match runs to the first </script> after the opening; without one
\* nothing is removed
RemoveScripts(s, from) ==
    With(ScriptOpen(s, from), LAMBDA i :
        IF i = 0 THEN SubSeq(s, from, Len(s))
        ELSE With(IndexOf(s, P_endscript, i + 7), LAMBDA j :
                 IF j = 0 THEN SubSeq(s, from, Len(s))
                 ELSE SubSeq(s, from, i - 1) \o RemoveScripts(s, j + 9)))

RECURSIVE ReplaceAll(_, _, _, _)
\* s.replace(/p/gi, r) for a pattern p of literal characters
ReplaceAll(s, p, r, from) ==
    With(IndexOf(s, p, from), LAMBDA i :
        IF i = 0 THEN SubSeq(s, from, Len(s))
        ELSE SubSeq(s, from, i - 1) \o r \o ReplaceAll(s, p, r, i + Len(p)))

\* /on\w+\s*=/ at position i: the position of the = that ends the match, 0
\* when there is no match at i
HandlerEnd(s, i) ==
    IF ~(MatchAt(s, i, P_on) /\ i + 2 <= Len(s) /\ IsWord(s[i + 2])) THEN 0
    ELSE With(SpaceRunEnd(s, WordRunEnd(s, i + 2)), LAMBDA e :
             IF e <= Len(s) /\ s[e] = 61 THEN e ELSE 0)

RECURSIVE ReplaceHandlers(_, _)
\* s.replace(/on\w+\s*=/gi, 'data-blocked=')
ReplaceHandlers(s, from) ==
    With(Least({i \in from..Len(s) : HandlerEnd(s, i) # 0}), LAMBDA i :
        IF i = 0 THEN SubSeq(s, from, Len(s))
        ELSE SubSeq(s, from, i - 1) \o R_datablocked
             \o ReplaceHandlers(s, HandlerEnd(s, i) + 1))

\* _renderHTML(content)
renderHTML(content) ==
    With(RemoveScripts(content, 1), LAMBDA s1 :
    With(ReplaceAll(s1, P_javascript, R_blocked, 1), LAMBDA s2 :
    With(ReplaceHandlers(s2, 1), LAMBDA sanitized :
        renderHTML_1 \o sanitized \o renderHTML_2)))

\* _formatBytes of the renderer
Renderer_formatBytes(bytes) ==
    formatBytes(bytes, <<48, 32>> \o U_B, <<U_B, U_KB, U_MB>>, 1)

\* _renderText(content): lines are the pieces between line feeds, words the
\* runs of characters that are no white space
renderText(content) ==
    renderText_1
    \o Digits(Cardinality({i \in 1..Len(content) : content[i] = 10}) + 1)
    \o renderText_2
    \o Digits(Cardinality({i \in 1..Len(content) :
                              /\ ~IsSpace(content[i])
                              /\ (i = 1 \/ IsSpace(content[i - 1]))}))
    \o renderText_3 \o Digits(Len(content))
    \o renderText_4 \o escapeHTML(content) \o renderText_5

RECURSIVE PrettyMembers(_, _, _)
PrettyMembers(o, i, first) ==
    IF i > Len(o) THEN <<>>
    ELSE IF o[i].v.t = "undefined" THEN PrettyMembers(o, i + 1, first)
    ELSE (IF first THEN <<>> ELSE <<44>>) \o <<10, 32, 32>>
         \o Quoted(o[i].k) \o <<58, 32>> \o ValueText(o[i].v)
         \o PrettyMembers(o, i + 1, FALSE)

\* JSON.stringify(parsed, null, 2) for what JSONparse returns
JSONstringifyPretty(v) ==
    IF v.t # "object" THEN ValueText(v)
    ELSE IF PrettyMembers(v.o, 1, TRUE) = <<>> THEN <<123, 125>>
    ELSE <<123>> \o PrettyMembers(v.o, 1, TRUE) \o <<10, 125>>

\* _countObjects(parsed): the properties of the model's objects are scalars
countObjects(v) == IF v.t = "object" THEN 1 ELSE 0

\* _renderJSON(content)
renderJSON(content) ==
    With(JSONparse(content), LAMBDA parsed :
        IF parsed.ok
        THEN renderJSON_1 \o Digits(countObjects(parsed.v))
             \o renderJSON_2 \o Renderer_formatBytes(Len(content))
             \o renderJSON_3 \o escapeHTML(JSONstringifyPretty(parsed.v))
             \o renderJSON_4
        ELSE renderJSONError_1 \o U_SyntaxError
             \o renderJSONError_2 \o escapeHTML(content) \o renderJSONError_3)

\* the lines of a text: the pieces between line feeds
RECURSIVE Lines(_, _)
Lines(s, from) ==
    With(Least({i \in from..Len(s) : s[i] = 10}), LAMBDA i :
        IF i = 0 THEN <<SubSeq(s, from, Len(s))>>
        ELSE <<SubSeq(s, from, i - 1)>> \o Lines(s, i + 1))

\* /^### (.*$)/gim, then /^## (.*$)/gim, then /^# (.*$)/gim on one line
HeaderLine(line) ==
    IF MatchAt(line, 1, <<35, 35, 35, 32>>)
    THEN <<60, 104, 51, 62>> \o SubSeq(line, 5, Len(line)) \o <<60, 47, 104, 51, 62>>
    ELSE IF MatchAt(line, 1, <<35, 35, 32>>)
    THEN <<60, 104, 50, 62>> \o SubSeq(line, 4, Len(line)) \o <<60, 47, 104, 50, 62>>
    ELSE IF MatchAt(line, 1, <<35, 32>>)
    THEN <<60, 104, 49, 62>> \o SubSeq(line, 3, Len(line)) \o <<60, 47, 104, 49, 62>>
    ELSE line

RECURSIVE JoinBr(_, _)
\* the lines with <br> for each line feed between them
JoinBr(lines, i) ==
    IF i > Len(lines) THEN <<>>
    ELSE (IF i = 1 THEN <<>> ELSE <<60, 98, 114, 62>>)
         \o HeaderLine(lines[i]) \o JoinBr(lines, i + 1)

\* _renderBasicMarkdown(content).  The texts of the model hold no *, no
\* backquote and no [, so the replacements for bold, italic, code and links
\* find nothing to replace.
renderBasicMarkdown(content) ==
    renderBasicMarkdown_1
    \o JoinBr(Lines(escapeHTML(content), 1), 1)
    \o renderBasicMarkdown_2

\* the builds of marked that the script of the CDN can be: one that writes
\* an id on a heading (headerIds) and one that does not
MarkedBuilds == {"4.x", "latest"}

\* marked.parse(content) on the texts of the model, one line each: a line
\* that starts with '# ' is a heading, one that starts with < is a block of
\* HTML and is passed through, any other is a paragraph
marked_parse(build, content) ==
    IF content = <<>> THEN <<>>
    ELSE IF MatchAt(content, 1, <<35, 32>>)
    THEN (IF build = "4.x"
          THEN <<60, 104, 49, 32, 105, 100, 61, 34>>
               \o toLowerCase(SubSeq(content, 3, Len(content))) \o <<34, 62>>
          ELSE <<60, 104, 49, 62>>)
         \o escapeHTML(SubSeq(content, 3, Len(content)))
         \o <<60, 47, 104, 49, 62, 10>>
    ELSE IF content[1] = 60 THEN content
    ELSE <<60, 112, 62>> \o escapeHTML(content) \o <<60, 47, 112, 62, 10>>

\* _renderMarkdown(content) after _loadMarked: this.marked is the build that
\* was loaded, or "" when there is none
renderMarkdown(lib, content) ==
    IF lib = "" THEN renderBasicMarkdown(content)
    ELSE renderMarkdown_1 \o marked_parse(lib, content) \o renderMarkdown_2

\* metadata.f || 'html': undefined, null, '', 0 and NaN are falsy
FormatOf(metadata) ==
    With(Get(metadata, K_f), LAMBDA f :
        IF f.t \in {"undefined", "null", "NaN"} THEN Str(S_html)
        ELSE IF f.t = "string" /\ f.s = <<>> THEN Str(S_html)
        ELSE IF f.t = "number" /\ f.n = 0 THEN Str(S_html)
        ELSE f)

\* the method that the switch of render selects for format.toLowerCase();
\* "throw" when format is no string and has no toLowerCase
StrategyOf(metadata) ==
    With(FormatOf(metadata), LAMBDA format :
        IF format.t # "string" THEN "throw"
        ELSE With(toLowerCase(format.s), LAMBDA lower :
            IF lower = S_html THEN "_renderHTML"
            ELSE IF lower = S_markdown \/ lower = S_md THEN "_renderMarkdown"
            ELSE IF lower = S_json THEN "_renderJSON"
            ELSE IF lower = S_text \/ lower = S_txt THEN "_renderText"
            ELSE "_renderText"))

TypeErrorNotAFunction == <<"TypeError: toLowerCase is not a function">>

\* render(content, metadata), with the marked that _loadMarked left
render(lib, content, metadata) ==
    With(StrategyOf(metadata), LAMBDA via :
        IF via = "throw"
        THEN [ok |-> FALSE, html |-> <<>>, message |-> TypeErrorNotAFunction]
        ELSE [ok |-> TRUE,
              html |-> IF via = "_renderHTML" THEN renderHTML(content)
                       ELSE IF via = "_renderMarkdown"
                       THEN renderMarkdown(lib, content)
                       ELSE IF via = "_renderJSON" THEN renderJSON(content)
                       ELSE renderText(content),
              message |-> <<>>])

\* querySelectorAll('h1, h2, h3, h4, h5, h6') on the parsed string: the
\* positions of the opening tags of headings.  The strings of the model
\* hold no comment, script or attribute value with a < in it.
HeadingsOf(html) ==
    {i \in 1..(Len(html) - 3) :
        /\ html[i] = 60
        /\ ToLower(html[i + 1]) = 104
        /\ html[i + 2] \in 49..54
        /\ (html[i + 3] = 62 \/ IsSpace(html[i + 3]))}

\* heading.textContent: the text from the end of the opening tag to the
\* next tag; the headings of the model hold text only, with no entity
TextContentAt(html, i) ==
    With(Least({j \in i..Len(html) : html[j] = 62}), LAMBDA gt :
    With(Least({j \in (gt + 1)..Len(html) : html[j] = 60}), LAMBDA lt :
        IF gt = 0 THEN <<>>
        ELSE SubSeq(html, gt + 1, IF lt = 0 THEN Len(html) ELSE lt - 1)))

RECURSIVE TocItems(_, _, _)
\* the items for the headings at the positions after `from`, index onwards
TocItems(html, from, index) ==
    With(Least({i \in HeadingsOf(html) : i > from}), LAMBDA i :
        IF i = 0 THEN <<>>
        ELSE tocItem_1 \o Digits((html[i + 2] - 49) * 20)
             \o tocItem_2 \o U_heading \o Digits(index)
             \o tocItem_3 \o TextContentAt(html, i)
             \o tocItem_4 \o TocItems(html, i, index + 1))

\* a faulty variant of generateTOC's early return: the content is returned
\* when there is no heading
generateTOCKeepsContent(content) ==
    IF HeadingsOf(content) = {} THEN content
    ELSE tocOpen \o TocItems(content, 0, 0) \o tocClose \o content

\* generateTOC(content)
generateTOC(content) ==
    IF HeadingsOf(content) = {} THEN <<>>
    ELSE tocOpen \o TocItems(content, 0, 0) \o tocClose \o content

(***************************************************************************)
(* The literal texts of the viewer, as code units.                         *)
(***************************************************************************)
\* window.location.origin of the page the README names
U_origin ==
    <<104, 116, 116, 112, 115, 58, 47, 47, 115, 109, 101, 108, 116, 115, 101, 114, 77, 97,
      107, 101, 46, 103, 105, 116, 104, 117, 98, 46, 105, 111>>

\* window.location.pathname of that page
U_pathname == <<47, 109, 97, 107, 101, 45, 115, 105, 116, 101, 115, 47>>

U_undefined_text == <<117, 110, 100, 101, 102, 105, 110, 101, 100>>

U_open_paren == <<32, 40>>

P_pre == <<60, 112, 114, 101>>

P_endpre == <<60, 47, 112, 114, 101, 62>>

P_code == <<60, 99, 111, 100, 101>>

P_extlink == <<104, 114, 101, 102, 61, 34, 104, 116, 116, 112>>

\* the texts the viewer is given: a, a heading in HTML, a heading in Markdown, an empty JSON object
t_a == <<97>>

t_heading == <<60, 104, 49, 62, 97, 60, 47, 104, 49, 62>>

t_markdown == <<35, 32, 97>>

t_json == <<123, 125>>

\* _showHelp: the template of lines 160-220, part 1 of 3 (before ${window.location.origin})
helpContent_1 ==
    <<10, 32, 32, 32, 32, 32, 32, 32, 32, 32, 32, 32, 32, 60, 100, 105, 118, 32,
      99, 108, 97, 115, 115, 61, 34, 104, 101, 108, 112, 45, 99, 111, 110, 116, 101, 110,
      116, 34, 62, 10, 32, 32, 32, 32, 32, 32, 32, 32, 32, 32, 32, 32, 32, 32,
      32, 32, 60, 104, 49, 62, 55357, 56960, 32, 109, 97, 107, 101, 45, 115, 105, 116, 101,
      115, 60, 47, 104, 49, 62, 10, 32, 32, 32, 32, 32, 32, 32, 32, 32, 32, 32,
      32, 32, 32, 32, 32, 60, 112, 32, 99, 108, 97, 115, 115, 61, 34, 115, 117, 98,
      116, 105, 116, 108, 101, 34, 62, 77, 111, 100, 101, 114, 110, 32, 100, 97, 116, 97,
      32, 85, 82, 76, 32, 99, 111, 109, 112, 114, 101, 115, 115, 105, 111, 110, 32, 102,
      111, 114, 32, 115, 104, 97, 114, 101, 97, 98, 108, 101, 32, 119, 101, 98, 32, 99,
      111, 110, 116, 101, 110, 116, 60, 47, 112, 62, 10, 32, 32, 32, 32, 32, 32, 32,
      32, 32, 32, 32, 32, 32, 32, 32, 32, 10, 32, 32, 32, 32, 32, 32, 32, 32,
      32, 32, 32, 32, 32, 32, 32, 32, 60, 100, 105, 118, 32, 99, 108, 97, 115, 115,
      61, 34, 104, 101, 108, 112, 45, 115, 101, 99, 116, 105, 111, 110, 34, 62, 10, 32,
      32, 32, 32, 32, 32, 32, 32, 32, 32, 32, 32, 32, 32, 32, 32, 32, 32, 32,
      32, 60, 104, 50, 62, 72, 111, 119, 32, 116, 111, 32, 85, 115, 101, 60, 47, 104,
      50, 62, 10, 32, 32, 32, 32, 32, 32, 32, 32, 32, 32, 32, 32, 32, 32, 32,
      32, 32, 32, 32, 32, 60, 111, 108, 62, 10, 32, 32, 32, 32, 32, 32, 32, 32,
      32, 32, 32, 32, 32, 32, 32, 32, 32, 32, 32, 32, 32, 32, 32, 32, 60, 108,
      105, 62, 67, 114, 101, 97, 116, 101, 32, 99, 111, 109, 112, 114, 101, 115, 115, 101,
      100, 32, 99, 111, 110, 116, 101, 110, 116, 32, 117, 115, 105, 110, 103, 32, 67, 108,
      97, 117, 100, 101, 32, 67, 111, 100, 101, 32, 111, 114, 32, 116, 104, 101, 32, 99,
      111, 109, 112, 114, 101, 115, 115, 105, 111, 110, 32, 116, 111, 111, 108, 60, 47, 108,
      105, 62, 10, 32, 32, 32, 32, 32, 32, 32, 32, 32, 32, 32, 32, 32, 32, 32,
      32, 32, 32, 32, 32, 32, 32, 32, 32, 60, 108, 105, 62, 65, 112, 112, 101, 110,
      100, 32, 116, 104, 101, 32, 99, 111, 109, 112, 114, 101, 115, 115, 101, 100, 32, 100,
      97, 116, 97, 32, 116, 111, 32, 116, 104, 105, 115, 32, 85, 82, 76, 58, 32, 60,
      99, 111, 100, 101, 62>>

\* _showHelp: the template of lines 160-220, part 2 of 3 (before ${window.location.pathname})
helpContent_2 == <<>>

\* _showHelp: the template of lines 160-220, part 3 of 3
helpContent_3 ==
    <<35, 38, 108, 116, 59, 100, 97, 116, 97, 38, 103, 116, 59, 60, 47, 99, 111, 100,
      101, 62, 60, 47, 108, 105, 62, 10, 32, 32, 32, 32, 32, 32, 32, 32, 32, 32,
      32, 32, 32, 32, 32, 32, 32, 32, 32, 32, 32, 32, 32, 32, 60, 108, 105, 62,
      83, 104, 97, 114, 101, 32, 116, 104, 101, 32, 85, 82, 76, 32, 45, 32, 105, 116,
      32, 99, 111, 110, 116, 97, 105, 110, 115, 32, 121, 111, 117, 114, 32, 101, 110, 116,
      105, 114, 101, 32, 115, 105, 116, 101, 33, 60, 47, 108, 105, 62, 10, 32, 32, 32,
      32, 32, 32, 32, 32, 32, 32, 32, 32, 32, 32, 32, 32, 32, 32, 32, 32, 60,
      47, 111, 108, 62, 10, 32, 32, 32, 32, 32, 32, 32, 32, 32, 32, 32, 32, 32,
      32, 32, 32, 60, 47, 100, 105, 118, 62, 10, 10, 32, 32, 32, 32, 32, 32, 32,
      32, 32, 32, 32, 32, 32, 32, 32, 32, 60, 100, 105, 118, 32, 99, 108, 97, 115,
      115, 61, 34, 104, 101, 108, 112, 45, 115, 101, 99, 116, 105, 111, 110, 34, 62, 10,
      32, 32, 32, 32, 32, 32, 32, 32, 32, 32, 32, 32, 32, 32, 32, 32, 32, 32,
      32, 32, 60, 104, 50, 62, 83, 117, 112, 112, 111, 114, 116, 101, 100, 32, 70, 111,
      114, 109, 97, 116, 115, 60, 47, 104, 50, 62, 10, 32, 32, 32, 32, 32, 32, 32,
      32, 32, 32, 32, 32, 32, 32, 32, 32, 32, 32, 32, 32, 60, 100, 105, 118, 32,
      99, 108, 97, 115, 115, 61, 34, 102, 111, 114, 109, 97, 116, 45, 103, 114, 105, 100,
      34, 62, 10, 32, 32, 32, 32, 32, 32, 32, 32, 32, 32, 32, 32, 32, 32, 32,
      32, 32, 32, 32, 32, 32, 32, 32, 32, 60, 100, 105, 118, 32, 99, 108, 97, 115,
      115, 61, 34, 102, 111, 114, 109, 97, 116, 45, 99, 97, 114, 100, 34, 62, 10, 32,
      32, 32, 32, 32, 32, 32, 32, 32, 32, 32, 32, 32, 32, 32, 32, 32, 32, 32,
      32, 32, 32, 32, 32, 32, 32, 32, 32, 60, 104, 51, 62, 55357, 56516, 32, 72, 84,
      77, 76, 60, 47, 104, 51, 62, 10, 32, 32, 32, 32, 32, 32, 32, 32, 32, 32,
      32, 32, 32, 32, 32, 32, 32, 32, 32, 32, 32, 32, 32, 32, 32, 32, 32, 32,
      60, 112, 62, 82, 105, 99, 104, 32, 119, 101, 98, 32, 112, 97, 103, 101, 115, 32,
      119, 105, 116, 104, 32, 115, 116, 121, 108, 105, 110, 103, 32, 97, 110, 100, 32, 105,
      110, 116, 101, 114, 97, 99, 116, 105, 118, 105, 116, 121, 60, 47, 112, 62, 10, 32,
      32, 32, 32, 32, 32, 32, 32, 32, 32, 32, 32, 32, 32, 32, 32, 32, 32, 32,
      32, 32, 32, 32, 32, 60, 47, 100, 105, 118, 62, 10, 32, 32, 32, 32, 32, 32,
      32, 32, 32, 32, 32, 32, 32, 32, 32, 32, 32, 32, 32, 32, 32, 32, 32, 32,
      60, 100, 105, 118, 32, 99, 108, 97, 115, 115, 61, 34, 102, 111, 114, 109, 97, 116,
      45, 99, 97, 114, 100, 34, 62, 10, 32, 32, 32, 32, 32, 32, 32, 32, 32, 32,
      32, 32, 32, 32, 32, 32, 32, 32, 32, 32, 32, 32, 32, 32, 32, 32, 32, 32,
      60, 104, 51, 62, 55357, 56541, 32, 77, 97, 114, 107, 100, 111, 119, 110, 60, 47, 104,
      51, 62, 10, 32, 32, 32, 32, 32, 32, 32, 32, 32, 32, 32, 32, 32, 32, 32,
      32, 32, 32, 32, 32, 32, 32, 32, 32, 32, 32, 32, 32, 60, 112, 62, 70, 111,
      114, 109, 97, 116, 116, 101, 100, 32, 116, 101, 120, 116, 32, 119, 105, 116, 104, 32,
      97, 117, 116, 111, 109, 97, 116, 105, 99, 32, 84, 79, 67, 32, 103, 101, 110, 101,
      114, 97, 116, 105, 111, 110, 60, 47, 112, 62, 10, 32, 32, 32, 32, 32, 32, 32,
      32, 32, 32, 32, 32, 32, 32, 32, 32, 32, 32, 32, 32, 32, 32, 32, 32, 60,
      47, 100, 105, 118, 62, 10, 32, 32, 32, 32, 32, 32, 32, 32, 32, 32, 32, 32,
      32, 32, 32, 32, 32, 32, 32, 32, 32, 32, 32, 32, 60, 100, 105, 118, 32, 99,
      108, 97, 115, 115, 61, 34, 102, 111, 114, 109, 97, 116, 45, 99, 97, 114, 100, 34,
      62, 10, 32, 32, 32, 32, 32, 32, 32, 32, 32, 32, 32, 32, 32, 32, 32, 32,
      32, 32, 32, 32, 32, 32, 32, 32, 32, 32, 32, 32, 60, 104, 51, 62, 55357, 56522,
      32, 74, 83, 79, 78, 60, 47, 104, 51, 62, 10, 32, 32, 32, 32, 32, 32, 32,
      32, 32, 32, 32, 32, 32, 32, 32, 32, 32, 32, 32, 32, 32, 32, 32, 32, 32,
      32, 32, 32, 60, 112, 62, 83, 116, 114, 117, 99, 116, 117, 114, 101, 100, 32, 100,
      97, 116, 97, 32, 119, 105, 116, 104, 32, 115, 121, 110, 116, 97, 120, 32, 104, 105,
      103, 104, 108, 105, 103, 104, 116, 105, 110, 103, 60, 47, 112, 62, 10, 32, 32, 32,
      32, 32, 32, 32, 32, 32, 32, 32, 32, 32, 32, 32, 32, 32, 32, 32, 32, 32,
      32, 32, 32, 60, 47, 100, 105, 118, 62, 10, 32, 32, 32, 32, 32, 32, 32, 32,
      32, 32, 32, 32, 32, 32, 32, 32, 32, 32, 32, 32, 32, 32, 32, 32, 60, 100,
      105, 118, 32, 99, 108, 97, 115, 115, 61, 34, 102, 111, 114, 109, 97, 116, 45, 99,
      97, 114, 100, 34, 62, 10, 32, 32, 32, 32, 32, 32, 32, 32, 32, 32, 32, 32,
      32, 32, 32, 32, 32, 32, 32, 32, 32, 32, 32, 32, 32, 32, 32, 32, 60, 104,
      51, 62, 55357, 56523, 32, 84, 101, 120, 116, 60, 47, 104, 51, 62, 10, 32, 32, 32,
      32, 32, 32, 32, 32, 32, 32, 32, 32, 32, 32, 32, 32, 32, 32, 32, 32, 32,
      32, 32, 32, 32, 32, 32, 32, 60, 112, 62, 80, 108, 97, 105, 110, 32, 116, 101,
      120, 116, 32, 119, 105, 116, 104, 32, 115, 116, 97, 116, 105, 115, 116, 105, 99, 115,
      32, 97, 110, 100, 32, 102, 111, 114, 109, 97, 116, 116, 105, 110, 103, 60, 47, 112,
      62, 10, 32, 32, 32, 32, 32, 32, 32, 32, 32, 32, 32, 32, 32, 32, 32, 32,
      32, 32, 32, 32, 32, 32, 32, 32, 60, 47, 100, 105, 118, 62, 10, 32, 32, 32,
      32, 32, 32, 32, 32, 32, 32, 32, 32, 32, 32, 32, 32, 32, 32, 32, 32, 60,
      47, 100, 105, 118, 62, 10, 32, 32, 32, 32, 32, 32, 32, 32, 32, 32, 32, 32,
      32, 32, 32, 32, 60, 47, 100, 105, 118, 62, 10, 10, 32, 32, 32, 32, 32, 32,
      32, 32, 32, 32, 32, 32, 32, 32, 32, 32, 60, 100, 105, 118, 32, 99, 108, 97,
      115, 115, 61, 34, 104, 101, 108, 112, 45, 115, 101, 99, 116, 105, 111, 110, 34, 62,
      10, 32, 32, 32, 32, 32, 32, 32, 32, 32, 32, 32, 32, 32, 32, 32, 32, 32,
      32, 32, 32, 60, 104, 50, 62, 70, 101, 97, 116, 117, 114, 101, 115, 60, 47, 104,
      50, 62, 10, 32, 32, 32, 32, 32, 32, 32, 32, 32, 32, 32, 32, 32, 32, 32,
      32, 32, 32, 32, 32, 60, 117, 108, 62, 10, 32, 32, 32, 32, 32, 32, 32, 32,
      32, 32, 32, 32, 32, 32, 32, 32, 32, 32, 32, 32, 32, 32, 32, 32, 60, 108,
      105, 62, 55357, 56796, 65039, 32, 65, 100, 118, 97, 110, 99, 101, 100, 32, 99, 111, 109,
      112, 114, 101, 115, 115, 105, 111, 110, 32, 40, 66, 114, 111, 116, 108, 105, 47, 103,
      122, 105, 112, 41, 60, 47, 108, 105, 62, 10, 32, 32, 32, 32, 32, 32, 32, 32,
      32, 32, 32, 32, 32, 32, 32, 32, 32, 32, 32, 32, 32, 32, 32, 32, 60, 108,
      105, 62, 55357, 56561, 32, 77, 111, 98, 105, 108, 101, 32, 114, 101, 115, 112, 111, 110,
      115, 105, 118, 101, 32, 100, 101, 115, 105, 103, 110, 60, 47, 108, 105, 62, 10, 32,
      32, 32, 32, 32, 32, 32, 32, 32, 32, 32, 32, 32, 32, 32, 32, 32, 32, 32,
      32, 32, 32, 32, 32, 60, 108, 105, 62, 55357, 56594, 32, 78, 111, 32, 115, 101, 114,
      118, 101, 114, 32, 115, 116, 111, 114, 97, 103, 101, 32, 45, 32, 101, 118, 101, 114,
      121, 116, 104, 105, 110, 103, 32, 105, 110, 32, 116, 104, 101, 32, 85, 82, 76, 60,
      47, 108, 105, 62, 10, 32, 32, 32, 32, 32, 32, 32, 32, 32, 32, 32, 32, 32,
      32, 32, 32, 32, 32, 32, 32, 32, 32, 32, 32, 60, 108, 105, 62, 9889, 32, 70,
      97, 115, 116, 32, 108, 111, 97, 100, 105, 110, 103, 32, 97, 110, 100, 32, 114, 101,
      110, 100, 101, 114, 105, 110, 103, 60, 47, 108, 105, 62, 10, 32, 32, 32, 32, 32,
      32, 32, 32, 32, 32, 32, 32, 32, 32, 32, 32, 32, 32, 32, 32, 32, 32, 32,
      32, 60, 108, 105, 62, 55356, 57256, 32, 80, 114, 111, 102, 101, 115, 115, 105, 111, 110,
      97, 108, 32, 115, 116, 121, 108, 105, 110, 103, 60, 47, 108, 105, 62, 10, 32, 32,
      32, 32, 32, 32, 32, 32, 32, 32, 32, 32, 32, 32, 32, 32, 32, 32, 32, 32,
      60, 47, 117, 108, 62, 10, 32, 32, 32, 32, 32, 32, 32, 32, 32, 32, 32, 32,
      32, 32, 32, 32, 60, 47, 100, 105, 118, 62, 10, 10, 32, 32, 32, 32, 32, 32,
      32, 32, 32, 32, 32, 32, 32, 32, 32, 32, 60, 100, 105, 118, 32, 99, 108, 97,
      115, 115, 61, 34, 104, 101, 108, 112, 45, 115, 101, 99, 116, 105, 111, 110, 34, 62,
      10, 32, 32, 32, 32, 32, 32, 32, 32, 32, 32, 32, 32, 32, 32, 32, 32, 32,
      32, 32, 32, 60, 104, 50, 62, 75, 101, 121, 98, 111, 97, 114, 100, 32, 83, 104,
      111, 114, 116, 99, 117, 116, 115, 60, 47, 104, 50, 62, 10, 32, 32, 32, 32, 32,
      32, 32, 32, 32, 32, 32, 32, 32, 32, 32, 32, 32, 32, 32, 32, 60, 117, 108,
      62, 10, 32, 32, 32, 32, 32, 32, 32, 32, 32, 32, 32, 32, 32, 32, 32, 32,
      32, 32, 32, 32, 32, 32, 32, 32, 60, 108, 105, 62, 60, 107, 98, 100, 62, 67,
      116, 114, 108, 47, 67, 109, 100, 32, 43, 32, 73, 60, 47, 107, 98, 100, 62, 32,
      45, 32, 84, 111, 103, 103, 108, 101, 32, 109, 101, 116, 97, 100, 97, 116, 97, 32,
      105, 110, 102, 111, 60, 47, 108, 105, 62, 10, 32, 32, 32, 32, 32, 32, 32, 32,
      32, 32, 32, 32, 32, 32, 32, 32, 32, 32, 32, 32, 32, 32, 32, 32, 60, 108,
      105, 62, 60, 107, 98, 100, 62, 67, 116, 114, 108, 47, 67, 109, 100, 32, 43, 32,
      82, 60, 47, 107, 98, 100, 62, 32, 45, 32, 82, 101, 108, 111, 97, 100, 32, 99,
      111, 110, 116, 101, 110, 116, 60, 47, 108, 105, 62, 10, 32, 32, 32, 32, 32, 32,
      32, 32, 32, 32, 32, 32, 32, 32, 32, 32, 32, 32, 32, 32, 60, 47, 117, 108,
      62, 10, 32, 32, 32, 32, 32, 32, 32, 32, 32, 32, 32, 32, 32, 32, 32, 32,
      60, 47, 100, 105, 118, 62, 10, 10, 32, 32, 32, 32, 32, 32, 32, 32, 32, 32,
      32, 32, 32, 32, 32, 32, 60, 100, 105, 118, 32, 99, 108, 97, 115, 115, 61, 34,
      104, 101, 108, 112, 45, 102, 111, 111, 116, 101, 114, 34, 62, 10, 32, 32, 32, 32,
      32, 32, 32, 32, 32, 32, 32, 32, 32, 32, 32, 32, 32, 32, 32, 32, 60, 112,
      62, 66, 117, 105, 108, 116, 32, 119, 105, 116, 104, 32, 10084, 65039, 32, 102, 111, 114,
      32, 115, 104, 97, 114, 105, 110, 103, 32, 99, 111, 110, 116, 101, 110, 116, 32, 97,
      110, 121, 119, 104, 101, 114, 101, 60, 47, 112, 62, 10, 32, 32, 32, 32, 32, 32,
      32, 32, 32, 32, 32, 32, 32, 32, 32, 32, 32, 32, 32, 32, 60, 112, 62, 60,
      97, 32, 104, 114, 101, 102, 61, 34, 104, 116, 116, 112, 115, 58, 47, 47, 103, 105,
      116, 104, 117, 98, 46, 99, 111, 109, 47, 115, 109, 101, 108, 116, 115, 101, 114, 77,
      97, 107, 101, 47, 109, 97, 107, 101, 45, 115, 105, 116, 101, 115, 34, 32, 116, 97,
      114, 103, 101, 116, 61, 34, 95, 98, 108, 97, 110, 107, 34, 62, 86, 105, 101, 119,
      32, 111, 110, 32, 71, 105, 116, 72, 117, 98, 60, 47, 97, 62, 60, 47, 112, 62,
      10, 32, 32, 32, 32, 32, 32, 32, 32, 32, 32, 32, 32, 32, 32, 32, 32, 60,
      47, 100, 105, 118, 62, 10, 32, 32, 32, 32, 32, 32, 32, 32, 32, 32, 32, 32,
      60, 47, 100, 105, 118, 62, 10, 32, 32, 32, 32, 32, 32, 32, 32>>

(***************************************************************************)
(* MakeSitesViewer: src/js/viewer.js.  The page is the record of what its  *)
(* four containers show: which are visible (display 'block'), the          *)
(* innerHTML assigned to the content container, the text of the error      *)
(* message and of the three spans of the metadata panel, and what          *)
(* _enhanceContent added to the content.  `last` names the last of the     *)
(* _show methods that ran to its end.                                      *)
(***************************************************************************)
\* the character # of location.hash: it is no character of base64, whose
\* characters are numbered 0..63 and 64 for =
HashSign == 65

\* a faulty variant of hash.substring(1): the # is kept
substring0(s) == s

\* window.location.hash.substring(1)
substring1(s) == SubSeq(s, 2, Len(s))

NoDom ==
    [last |-> "none", loading |-> FALSE, content |-> FALSE, error |-> FALSE,
     metadata |-> FALSE, innerHTML |-> <<>>, errorMessage |-> <<>>,
     compressionInfo |-> <<>>, sizeInfo |-> <<>>, formatInfo |-> <<>>,
     copyButtons |-> 0, externalLinks |-> 0]

\* _setupContainers(): the page has no #content, so the containers are
\* written: loading has no display style, the other three have none
setupContainers == [NoDom EXCEPT !.last = "setup", !.loading = TRUE]

\* _showLoading()
showLoading(d) ==
    [d EXCEPT !.last = "loading", !.loading = TRUE, !.content = FALSE,
              !.error = FALSE, !.metadata = FALSE]

\* a faulty variant of _showError: the loading container is left as it is
showErrorKeepsLoading(d, message) ==
    [d EXCEPT !.last = "error", !.errorMessage = message, !.error = TRUE,
              !.content = FALSE, !.metadata = FALSE]

\* _showError(message)
showError(d, message) ==
    [d EXCEPT !.last = "error", !.errorMessage = message, !.error = TRUE,
              !.content = FALSE, !.loading = FALSE, !.metadata = FALSE]

helpContent == helpContent_1 \o U_origin \o helpContent_2 \o U_pathname \o helpContent_3

\* _showHelp(): the assignment to innerHTML replaces what was in the container
showHelp(d) ==
    [d EXCEPT !.last = "help", !.innerHTML = helpContent, !.content = TRUE,
              !.loading = FALSE, !.error = FALSE, !.metadata = FALSE,
              !.copyButtons = 0, !.externalLinks = 0]

\* _formatBytes of the viewer; Math.log of what is no number is NaN
Viewer_formatBytes(bytes) ==
    IF bytes.t = "number" THEN formatBytes(bytes.n, <<48, 32>> \o U_B, <<U_B, U_KB, U_MB>>, 1)
    ELSE S_NaN \o <<32>> \o S_undefined

\* `${value}` in a template
StringOf(v) ==
    IF v.t = "number" THEN (IF v.n < 0 THEN <<45>> \o Digits(-v.n) ELSE Digits(v.n))
    ELSE IF v.t = "string" THEN v.s
    ELSE IF v.t = "null" THEN S_null
    ELSE IF v.t = "undefined" THEN U_undefined_text
    ELSE S_NaN

TypeErrorToUpperCase == <<"TypeError: cannot read properties of undefined (reading 'toUpperCase')">>

\* _updateMetadata(metadata): the three spans are written in turn; c and f
\* have a toUpperCase only when they are strings
updateMetadata(d, metadata) ==
    IF Get(metadata, K_c).t # "string"
    THEN [ok |-> FALSE, dom |-> d, message |-> TypeErrorToUpperCase]
    ELSE With([d EXCEPT !.compressionInfo =
                            U_Compression \o toUpperCase(Get(metadata, K_c).s),
                        !.sizeInfo =
                            Viewer_formatBytes(Get(metadata, K_cs)) \o U_open_paren
                            \o StringOf(Get(metadata, K_r)) \o U_saved],
              LAMBDA d2 :
             IF Get(metadata, K_f).t # "string"
             THEN [ok |-> FALSE, dom |-> d2, message |-> TypeErrorToUpperCase]
             ELSE [ok |-> TRUE,
                   dom |-> [d2 EXCEPT !.formatInfo =
                               U_Format \o toUpperCase(Get(metadata, K_f).s)],
                   message |-> <<>>])

\* querySelectorAll('pre code'): the <code tags that stand inside a <pre
CodeBlocks(html) ==
    {i \in 1..Len(html) :
        /\ MatchAt(html, i, P_code)
        /\ \E p \in 1..i :
              /\ MatchAt(html, p, P_pre)
              /\ \A q \in p..i : ~MatchAt(html, q, P_endpre)}

\* querySelectorAll('a[href^="http"]')
ExternalLinks(html) == {i \in 1..Len(html) : MatchAt(html, i, P_extlink)}

(***************************************************************************)
(* The inputs of the viewer, and the values of its pure steps on them.     *)
(* Each table is computed once from the operator it tabulates, on the      *)
(* inputs of the model; a step of a load asks the table.                   *)
(***************************************************************************)
ViewerBlob(content, format) == Fixed_compress(content, format, 9).transport

\* fragments: what compress wrote for a text and a format (csv and the
\* empty format among them), a container with no f, one whose f is a number,
\* a gz container, and a string that is no container
ViewerFragments ==
    {ViewerBlob(t_a, S_html), ViewerBlob(t_heading, S_html),
     ViewerBlob(t_markdown, S_markdown), ViewerBlob(t_json, S_json),
     ViewerBlob(t_a, S_text), ViewerBlob(t_a, <<99, 115, 118>>),
     ViewerBlob(t_a, <<>>), ViewerBlob(t_markdown, S_md),
     Fixed_encodeWithMetadata(TextEncode(t_a),
         Obj(<<Prop(K_v, Num(1)), Prop(K_c, Str(S_none)), Prop(K_os, Num(1)),
               Prop(K_cs, Num(1)), Prop(K_ts, Num(9))>>)),
     Fixed_encodeWithMetadata(TextEncode(t_a),
         Obj(<<Prop(K_v, Num(1)), Prop(K_c, Str(S_none)), Prop(K_f, Num(5)),
               Prop(K_os, Num(1)), Prop(K_cs, Num(1)), Prop(K_ts, Num(9))>>)),
     Pako_compress(Pako_constructor({"pako"}), t_a, S_text, 9).transport}
    \cup {<<65, 0, 0, 0>>}

\* location.hash: empty, or # and the fragment
ViewerLocations == {<<>>} \cup {<<HashSign>> \o f : f \in ViewerFragments}

\* the globals the classes test for; a browser has both stream classes or none
Windows ==
    {{}, {"pako"}, {"CompressionStream", "DecompressionStream"},
     {"CompressionStream", "DecompressionStream", "pako"}}

\* this.marked: none, or a build
Libs == {""} \cup MarkedBuilds

\* decompress of the Fixed class goes to _streamDecompress: the container is
\* well formed, tagged gz or br, and the page has the streams
Fixed_awaitsStream(this, encodedData) ==
    With(Fixed_decodeWithMetadata(encodedData), LAMBDA d :
        /\ d.ok
        /\ d.metadata.t # "null"
        /\ \/ Get(d.metadata, K_c) = Str(S_gz) /\ this.supportsGzip
           \/ Get(d.metadata, K_c) = Str(S_br) /\ this.supportsBrotli)

Range(f) == {f[x] : x \in DOMAIN f}

DecompressOf ==
    [w \in Windows |-> [f \in ViewerFragments |->
        [r |-> Fixed_decompress(Fixed_constructor(w), f),
         awaits |-> Fixed_awaitsStream(Fixed_constructor(w), f)]]]

\* decompress(hash) of the viewer's codec, and whether it waits for a stream
Decompress(w, hash) ==
    IF hash \in ViewerFragments THEN DecompressOf[w][hash]
    ELSE [r |-> Fixed_decompress(Fixed_constructor(w), hash),
          awaits |-> Fixed_awaitsStream(Fixed_constructor(w), hash)]

ViewerResults == {x.r : x \in UNION {Range(t) : t \in Range(DecompressOf)}}

RenderOf ==
    [k \in Libs \X {x \in ViewerResults : x.ok} |->
        render(k[1], k[2].content, k[2].metadata)]

\* render(content, metadata) on what decompress returned
Render(lib, r) == RenderOf[<<lib, r>>]

GenerateTOCOf == [html \in {x.html : x \in Range(RenderOf)} |-> generateTOC(html)]

GenerateTOC(html) == GenerateTOCOf[html]

EnhanceOf ==
    [html \in Range(GenerateTOCOf) |->
        [copyButtons |-> Cardinality(CodeBlocks(html)),
         externalLinks |-> Cardinality(ExternalLinks(html))]]

\* _enhanceContent(): a copy button for each code block, an arrow and two
\* attributes for each external link
enhanceContent(d) ==
    With(EnhanceOf[d.innerHTML], LAMBDA found :
        [d EXCEPT !.copyButtons = found.copyButtons,
                  !.externalLinks = found.externalLinks])

\* a faulty variant of _showContent: the loading container is left as it is
showContentKeepsLoading(d, content, metadata) ==
    With(updateMetadata([d EXCEPT !.innerHTML = content, !.content = TRUE,
                                  !.error = FALSE,
                                  !.copyButtons = 0, !.externalLinks = 0],
                        metadata), LAMBDA u :
        IF ~u.ok THEN u
        ELSE [u EXCEPT !.dom = [enhanceContent(u.dom) EXCEPT !.last = "content"]])

\* _showContent(content, metadata): it throws what _updateMetadata throws,
\* after the containers were switched
showContent(d, content, metadata) ==
    With(updateMetadata([d EXCEPT !.innerHTML = content, !.content = TRUE,
                                  !.loading = FALSE, !.error = FALSE,
                                  !.copyButtons = 0, !.externalLinks = 0],
                        metadata), LAMBDA u :
        IF ~u.ok THEN u
        ELSE [u EXCEPT !.dom = [enhanceContent(u.dom) EXCEPT !.last = "content"]])

NoRender == [ok |-> FALSE, html |-> <<>>, message |-> <<>>]

\* _loadFromURL from the return of decompress on: r is what decompress
\* returned or threw, marked what _loadMarked left.  The outcome is the page
\* and, for the record, the method render selected and what it returned.
FinishLoad(d, lib, r) ==
    IF ~r.ok
    THEN [dom |-> showError(d, r.message), via |-> "none", rendered |-> NoRender]
    ELSE With(Render(lib, r), LAMBDA renderedContent :
        IF ~renderedContent.ok
        THEN [dom |-> showError(d, renderedContent.message),
              via |-> "throw", rendered |-> renderedContent]
        ELSE With(showContent(d, GenerateTOC(renderedContent.html), r.metadata),
                  LAMBDA shown :
                 [dom |-> IF shown.ok THEN shown.dom
                          ELSE showError(shown.dom, shown.message),
                  via |-> StrategyOf(r.metadata),
                  rendered |-> renderedContent]))

(***************************************************************************)
(* The calls of the stream helpers.  A call makes its own stream, writer,  *)
(* reader and chunks; the stream is the platform's: a write is transformed *)
(* when the readable side lets it, close flushes the codec and closes the  *)
(* readable side.  Two callers use the same instances at the same time.    *)
(***************************************************************************)
Callers == {"first", "second"}

\* _streamDecompress of the Fixed class writes, closes and then reads; the
\* four helpers of the Stream class read while they write
SequentialHelpers == {"_streamDecompress"}
ConcurrentHelpers ==
    {"_compressBrotli", "_compressGzip", "_decompressBrotli", "_decompressGzip"}
Helpers == SequentialHelpers \cup ConcurrentHelpers

\* the arguments of the helpers: a text to compress, what the codec wrote
\* for it, and a byte that is no compressed data
InputsOf(helper) ==
    IF helper \in {"_compressBrotli", "_compressGzip"} THEN {t_a}
    ELSE IF helper = "_decompressBrotli" THEN {DeflateRaw(TextEncode(t_a)), <<0>>}
    ELSE {Gzip(TextEncode(t_a)), <<0>>}

\* all that the codec of the helper's stream gives for the input, or its error
StreamOutput(helper, input) ==
    IF helper = "_compressBrotli" THEN Done(DeflateRaw(TextEncode(input)))
    ELSE IF helper = "_compressGzip" THEN Done(Gzip(TextEncode(input)))
    ELSE IF helper = "_decompressBrotli" THEN InflateRaw(input)
    ELSE Gunzip(input)

\* the number of bytes a transform may give before the flush: none, or half
SplitsOf(bytes) == {0, Len(bytes) \div 2}

NoStream ==
    [pc |-> "idle", helper |-> "none", input |-> <<>>, backpressure |-> FALSE,
     codec |-> Fail, written |-> "no", emitted |-> 0, queue |-> <<>>,
     flushed |-> FALSE, pending |-> FALSE, wpc |-> "none", rpc |-> "none",
     chunks |-> <<>>, result |-> [ok |-> FALSE, value |-> <<>>]]

\* the entry of a helper up to its first await: the stream, the writer and
\* the reader are made, write is called; a helper of the Stream class also
\* starts its read loop
Entered(helper, input, backpressure) ==
    [NoStream EXCEPT !.pc = "running", !.helper = helper, !.input = input,
                     !.backpressure = backpressure,
                     !.codec = StreamOutput(helper, input),
                     !.written = "queued", !.wpc = "awaitWrite",
                     !.rpc = IF helper \in ConcurrentHelpers THEN "reading" ELSE "none",
                     !.pending = helper \in ConcurrentHelpers]

\* the transform of the queued write: it runs when the readable side asks
\* for data, or at once on a platform without backpressure
CanTransform(s) == s.written = "queued" /\ (~s.backpressure \/ s.pending)

Transformed(s, k) ==
    IF ~s.codec.ok THEN [s EXCEPT !.written = "failed"]
    ELSE [s EXCEPT !.written = "done", !.emitted = k,
                   !.queue = IF k > 0 THEN <<SubSeq(s.codec.bytes, 1, k)>> ELSE <<>>]

\* the flush of close: the rest of the output, and the readable side closes
Flushed(s) ==
    [s EXCEPT !.flushed = TRUE,
              !.queue = IF s.emitted < Len(s.codec.bytes)
                        THEN Append(s.queue, SubSeq(s.codec.bytes, s.emitted + 1,
                                                    Len(s.codec.bytes)))
                        ELSE s.queue]

\* a faulty variant of chunks.push: the chunks are shared by the calls
PushShared(all, c, chunk) ==
    [d \in DOMAIN all |-> [all[d] EXCEPT !.chunks = Append(@, chunk),
                                         !.queue = IF d = c THEN Tail(@) ELSE @]]

\* chunks.push(value) of the call c, after its read gave the chunk
Push(all, c, chunk) ==
    [all EXCEPT ![c].chunks = Append(@, chunk), ![c].queue = Tail(@)]

RECURSIVE Combine(_)
\* the chunks set one after the other into one array
Combine(chunks) ==
    IF chunks = <<>> THEN <<>> ELSE Head(chunks) \o Combine(Tail(chunks))

\* what the helper returns: the bytes, or the text decoded from them
ReturnOf(helper, bytes) ==
    IF helper \in {"_decompressBrotli", "_decompressGzip"} THEN TextDecode(bytes)
    ELSE bytes

(***************************************************************************)
(* The state machine.  A page has one window; a caller compresses a text   *)
(* with one of the three classes, or a fragment written elsewhere arrives; *)
(* the transport string is then handed to the decompress of a class.       *)
(***************************************************************************)
\* the characters of the contents: a, e-acute, the byte order mark U+FEFF and
\* U+1F600 (a surrogate pair): one to four bytes of UTF-8
Chars == {<<97>>, <<233>>, <<65279>>, <<55357, 56832>>}

RECURSIVE TextsOfLen(_)
TextsOfLen(k) ==
    IF k = 0 THEN {<<>>}
    ELSE {c \o s : c \in Chars, s \in TextsOfLen(k - 1)}

Contents == UNION {TextsOfLen(k) : k \in 0..MaxLen}

F_html == <<104, 116, 109, 108>>
F_markdown == <<109, 97, 114, 107, 100, 111, 119, 110>>
F_json == <<106, 115, 111, 110>>
F_text == <<116, 101, 120, 116>>
\* a format the renderer does not know: "csv"
F_other == <<99, 115, 118>>
KnownFormats == {F_html, F_markdown, F_json, F_text}
Formats == KnownFormats \cup {F_other}

\* the values Date.now() returns: one, two, three, ... digits
Times == {9 * k * k * k : k \in 1..MaxClock}

\* what a caller passes: a text or null, a format name or a BigInt
ContentArguments == Contents \cup {NullContent}
FormatArguments == Formats \cup {BigIntFormat}

NoCall == [class |-> "none", content |-> <<>>, format |-> <<>>, now |-> 0]
NoMade == [data |-> <<>>, metadata |-> Undefined]
NoResult == [by |-> "none"] @@ Throws(<<>>, <<>>)
NoStats == [by |-> "none"] @@ StatsThrows(<<>>, <<>>)
NoSettled == [by |-> "none", hash |-> <<>>, via |-> "none",
              metadata |-> Undefined, rendered |-> NoRender]

Init ==
    /\ window \in Windows
    /\ pc = "idle"
    /\ call = NoCall
    /\ made = NoMade
    /\ blob = <<>>
    /\ result = NoResult
    /\ stats = NoStats
    /\ started = FALSE
    /\ location = <<>>
    /\ dom = NoDom
    /\ loads = <<>>
    /\ marked = ""
    /\ lastLoad = [called |-> FALSE, arg |-> <<>>]
    /\ lastSettled = NoSettled
    /\ streams = [c \in Callers |-> NoStream]
    /\ instances = [fixed |-> Fixed_constructor(window),
                    stream |-> Stream_constructor(window)]

Compressed(class, content, format, now, e) ==
    /\ pc' = IF e.ok THEN "encoded" ELSE "failed"
    /\ call' = [class |-> class, content |-> content, format |-> format, now |-> now]
    /\ made' = [data |-> e.data, metadata |-> e.metadata]
    /\ blob' = e.transport
    /\ result' = IF e.ok THEN result
                 ELSE [by |-> class] @@ Throws(e.message, e.cause)
    /\ UNCHANGED <<window, stats, viewerVars, streamVars>>

FixedCompress ==
    /\ pc = "idle"
    /\ \E content \in ContentArguments, format \in FormatArguments, now \in Times :
         Compressed("Fixed", content, format, now,
                    Fixed_compress(content, format, now))

StreamCompress ==
    /\ pc = "idle"
    /\ \E content \in ContentArguments, format \in FormatArguments, now \in Times :
         Compressed("Stream", content, format, now,
                    Stream_compress(Stream_constructor(window), content, format, now))

PakoCompress ==
    /\ pc = "idle"
    /\ \E content \in ContentArguments, format \in FormatArguments, now \in Times :
         Compressed("Pako", content, format, now,
                    Pako_compress(Pako_constructor(window), content, format, now))

\* fragments that no compress of these classes wrote
CraftedMetadata(c) ==
    Obj(<<Prop(K_v, Num(1)), Prop(K_c, c), Prop(K_f, Str(F_text)),
          Prop(K_os, Num(1)), Prop(K_cs, Num(1)), Prop(K_ts, Num(9))>>)

S_zzz == <<122, 122, 122>>

UnknownCodecFragments ==
    {Fixed_encodeWithMetadata(TextEncode(<<97>>), CraftedMetadata(c)) :
        c \in {Str(S_zzz), Undefined}}

StoredContainer ==
    atob(Fixed_encodeWithMetadata(TextEncode(<<97>>), CraftedMetadata(Str(S_none)))).bytes

\* a length prefix that points past the end of the buffer
BadLengthFragments ==
    {btoa(prefix \o sliceFrom(StoredContainer, 4)) :
        prefix \in {setUint32(Len(StoredContainer) - 3), <<255, 0, 0, 0>>,
                    <<0, 0, 0, 1>>}}
    \cup {btoa(<<255, 0, 0, 0>>
               \o TextEncode(JSONstringify(Obj(<<Prop(K_compression, Str(S_none))>>))))}

\* fewer than four bytes
ShortFragments == {btoa(<<>>), btoa(<<7>>), btoa(<<7, 0, 0>>)}

\* not base64: a character outside the alphabet, a length of 1 mod 4
MalformedFragments == {<<65, 0, 0, 0>>, <<0>>}

\* a right length prefix before metadata that is no JSON text: {
BadJsonFragments == {btoa(setUint32(1) \o <<123>> \o TextEncode(<<97>>))}

\* a container tagged gz whose payload is no gzip member
CorruptPayloadFragments ==
    {Fixed_encodeWithMetadata(TextEncode(<<97>>), CraftedMetadata(Str(S_gz)))}

Fragments ==
    UnknownCodecFragments \cup BadLengthFragments \cup ShortFragments
    \cup MalformedFragments \cup BadJsonFragments \cup CorruptPayloadFragments

Receive ==
    /\ pc = "idle"
    /\ \E fragment \in Fragments : blob' = fragment
    /\ pc' = "received"
    /\ UNCHANGED <<window, call, made, result, stats, viewerVars, streamVars>>

Decompressed(class, r) ==
    /\ pc' = "decoded"
    /\ result' = [by |-> class] @@ r
    /\ UNCHANGED <<window, call, made, blob, stats, viewerVars, streamVars>>

FixedDecompress ==
    /\ pc \in {"encoded", "received"}
    /\ Decompressed("Fixed", Fixed_decompress(Fixed_constructor(window), blob))

StreamDecompress ==
    /\ pc \in {"encoded", "received"}
    /\ Decompressed("Stream", Stream_decompress(window, blob))

PakoDecompress ==
    /\ pc \in {"encoded", "received"}
    /\ \E build \in PakoBuilds :
         Decompressed("Pako", Pako_decompress(Pako_constructor(window), window,
                                              build, blob))

\* getStats(original, compressed): the page measures the string its own
\* compress returned against the text it compressed, or a fragment that
\* arrived against any text
Originals == IF pc = "encoded" THEN {call.content} ELSE Contents

Measured(class, s) ==
    /\ pc' = "measured"
    /\ stats' = [by |-> class] @@ s
    /\ UNCHANGED <<window, call, made, blob, result, viewerVars, streamVars>>

FixedGetStats ==
    /\ pc \in {"encoded", "received"}
    /\ pc = "encoded" => call.class = "Fixed"
    /\ \E original \in Originals :
         Measured("Fixed", Fixed_getStats(original, blob))

StreamGetStats ==
    /\ pc \in {"encoded", "received"}
    /\ pc = "encoded" => call.class = "Stream"
    /\ \E original \in Originals :
         Measured("Stream", Stream_getStats(original, blob))

PakoGetStats ==
    /\ pc \in {"encoded", "received"}
    /\ pc = "encoded" => call.class = "Pako"
    /\ \E original \in Originals :
         Measured("Pako", Pako_getStats(original, blob))

\* the caller has its answer; the next call starts from scratch
Return ==
    /\ pc \in {"decoded", "failed", "measured"}
    /\ pc' = "idle"
    /\ call' = NoCall
    /\ made' = NoMade
    /\ blob' = <<>>
    /\ result' = NoResult
    /\ stats' = NoStats
    /\ UNCHANGED <<window, viewerVars, streamVars>>

Next ==
    \/ FixedCompress
    \/ StreamCompress
    \/ PakoCompress
    \/ Receive
    \/ FixedDecompress
    \/ StreamDecompress
    \/ PakoDecompress
    \/ FixedGetStats
    \/ StreamGetStats
    \/ PakoGetStats
    \/ Return

Spec == Init /\ [][Next]_vars

(***************************************************************************)
(* The viewer.  The page is opened with a fragment, the fragment changes,  *)
(* keys are pressed.  A load that needs nothing from outside runs to its   *)
(* end within the event that started it: its awaits are resumed before the *)
(* next event.  A load waits across events in two places: for the stream   *)
(* of a gz container (_streamDecompress) and for the script of marked      *)
(* (_loadMarked).                                                          *)
(***************************************************************************)
\* most loads that wait at one time
MaxInFlight == 1

Remove(seq, i) == SubSeq(seq, 1, i - 1) \o SubSeq(seq, i + 1, Len(seq))

\* the load ends: the page shows its outcome
Settle(d, rest, hash, r, loadedMarked) ==
    /\ \E finished \in {FinishLoad(d, loadedMarked, r)} :
          /\ dom' = finished.dom
          /\ lastSettled' = [by |-> "load", hash |-> hash, via |-> finished.via,
                             metadata |-> r.metadata,
                             rendered |-> finished.rendered]
    /\ loads' = rest
    /\ marked' = loadedMarked

\* decompress returned or threw r: render is called, and _renderMarkdown
\* waits for the script when there is no marked yet
Continue(d, rest, hash, r) ==
    IF r.ok /\ StrategyOf(r.metadata) = "_renderMarkdown" /\ marked = ""
    THEN /\ dom' = d
         /\ loads' = Append(rest, [hash |-> hash, at |-> "script",
                                   content |-> r.content, metadata |-> r.metadata])
         /\ UNCHANGED <<lastSettled, marked>>
    ELSE Settle(d, rest, hash, r, marked)

\* _loadFromURL() on the page d with location.hash = hash
LoadFromURL(d, locationHash) ==
    IF substring1(locationHash) = <<>>
    THEN /\ dom' = showHelp(d)
         /\ lastLoad' = [called |-> FALSE, arg |-> <<>>]
         /\ lastSettled' = [NoSettled EXCEPT !.by = "load"]
         /\ UNCHANGED <<loads, marked>>
    ELSE /\ lastLoad' = [called |-> TRUE, arg |-> substring1(locationHash)]
         /\ \E decompressed \in {Decompress(window, substring1(locationHash))} :
               IF decompressed.awaits
               THEN /\ dom' = showLoading(d)
                    /\ loads' = Append(loads, [hash |-> substring1(locationHash),
                                               at |-> "stream", content |-> <<>>,
                                               metadata |-> Undefined])
                    /\ UNCHANGED <<lastSettled, marked>>
               ELSE Continue(showLoading(d), loads, substring1(locationHash),
                             decompressed.r)

\* DOMContentLoaded: the viewer is made and init() runs
DOMContentLoaded ==
    /\ ~started
    /\ started' = TRUE
    /\ \E h \in ViewerLocations :
          /\ location' = h
          /\ LoadFromURL(setupContainers, h)
    /\ UNCHANGED <<window, codecVars, streamVars>>

\* hashchange: the fragment became another one
HashChange ==
    /\ started
    /\ \E h \in ViewerLocations \ {location} :
          /\ location' = h
          /\ LoadFromURL(dom, h)
    /\ Len(loads') <= MaxInFlight
    /\ UNCHANGED <<started, window, codecVars, streamVars>>

\* Ctrl-R or Cmd-R: _reloadContent()
ReloadContent ==
    /\ started
    /\ LoadFromURL(dom, location)
    /\ Len(loads') <= MaxInFlight
    /\ UNCHANGED <<started, location, window, codecVars, streamVars>>

\* Ctrl-I or Cmd-I: _toggleMetadata()
ToggleMetadata ==
    /\ started
    /\ dom' = [dom EXCEPT !.metadata = ~dom.metadata]
    /\ UNCHANGED <<started, location, loads, marked, lastLoad, lastSettled,
                   window, codecVars, streamVars>>

\* the Help button of the error container: showHelp()
HelpButton ==
    /\ started
    /\ dom.error
    /\ dom' = showHelp(dom)
    /\ lastSettled' = [NoSettled EXCEPT !.by = "button"]
    /\ UNCHANGED <<started, location, loads, marked, lastLoad,
                   window, codecVars, streamVars>>

\* the stream of a waiting load gave its last chunk, or failed
StreamSettles ==
    /\ \E i \in 1..Len(loads) :
          /\ loads[i].at = "stream"
          /\ Continue(dom, Remove(loads, i), loads[i].hash,
                      Decompress(window, loads[i].hash).r)
    /\ UNCHANGED <<started, location, lastLoad, window, codecVars, streamVars>>

\* the script of a waiting load was loaded (onload) or not (onerror); a
\* script that loads defines the marked of the builds
ScriptSettles ==
    /\ \E i \in 1..Len(loads), loaded \in MarkedBuilds \cup {""} :
          /\ loads[i].at = "script"
          /\ marked # "" /\ loaded # "" => loaded = marked
          /\ Settle(dom, Remove(loads, i), loads[i].hash,
                    Returns(loads[i].content, loads[i].metadata),
                    IF loaded # "" THEN loaded ELSE marked)
    /\ UNCHANGED <<started, location, lastLoad, window, codecVars, streamVars>>

ViewerNext ==
    \/ DOMContentLoaded
    \/ HashChange
    \/ ReloadContent
    \/ ToggleMetadata
    \/ HelpButton
    \/ StreamSettles
    \/ ScriptSettles

\* the browsers the viewer is opened in: one with neither the streams nor
\* pako, and one with both
ViewerWindows == {{}, {"CompressionStream", "DecompressionStream", "pako"}}

ViewerInit == Init /\ window \in ViewerWindows

ViewerSpec == ViewerInit /\ [][ViewerNext]_vars

(***************************************************************************)
(* The steps of the calls of the stream helpers.                           *)
(***************************************************************************)
Call ==
    \E c \in Callers, helper \in Helpers, backpressure \in BOOLEAN :
        \E input \in InputsOf(helper) :
            /\ streams[c].pc = "idle"
            /\ streams' = [streams EXCEPT ![c] = Entered(helper, input, backpressure)]
            /\ UNCHANGED <<window, codecVars, viewerVars, instances>>

Transform(c) ==
    /\ CanTransform(streams[c])
    /\ \E k \in SplitsOf(streams[c].codec.bytes) :
          streams' = [streams EXCEPT ![c] = Transformed(streams[c], k)]
    /\ UNCHANGED <<window, codecVars, viewerVars, instances>>

\* the promise of write settled: close is called, or the error is thrown
WriteSettled(c) ==
    /\ streams[c].wpc = "awaitWrite"
    /\ streams[c].written \in {"done", "failed"}
    /\ streams' = [streams EXCEPT ![c].wpc =
                      IF streams[c].written = "done" THEN "awaitClose" ELSE "failed"]
    /\ UNCHANGED <<window, codecVars, viewerVars, instances>>

Flush(c) ==
    /\ streams[c].wpc = "awaitClose"
    /\ ~streams[c].flushed
    /\ streams' = [streams EXCEPT ![c] = Flushed(streams[c])]
    /\ UNCHANGED <<window, codecVars, viewerVars, instances>>

\* the promise of close settled; _streamDecompress now starts to read
CloseSettled(c) ==
    /\ streams[c].wpc = "awaitClose"
    /\ streams[c].flushed
    /\ streams' = [streams EXCEPT
          ![c].wpc = "done",
          ![c].rpc = IF streams[c].helper \in SequentialHelpers THEN "reading" ELSE @,
          ![c].pending = IF streams[c].helper \in SequentialHelpers THEN TRUE ELSE @]
    /\ UNCHANGED <<window, codecVars, viewerVars, instances>>

\* reader.read() gave a chunk, gave done, or was rejected
Read(c) ==
    /\ streams[c].rpc = "reading"
    /\ \/ /\ streams[c].queue # <<>>
          /\ streams' = Push(streams, c, Head(streams[c].queue))
       \/ /\ streams[c].queue = <<>>
          /\ streams[c].flushed
          /\ streams' = [streams EXCEPT ![c].rpc = "done", ![c].pending = FALSE]
       \/ /\ streams[c].written = "failed"
          /\ streams' = [streams EXCEPT ![c].rpc = "failed", ![c].pending = FALSE]
    /\ UNCHANGED <<window, codecVars, viewerVars, instances>>

\* the helper returns the combined chunks, or throws the stream's error
ReturnCall(c) ==
    /\ streams[c].pc = "running"
    /\ \/ /\ streams[c].wpc = "done"
          /\ streams[c].rpc = "done"
          /\ streams' = [streams EXCEPT
                ![c].pc = "returned",
                ![c].result = [ok |-> TRUE,
                               value |-> ReturnOf(streams[c].helper,
                                                  Combine(streams[c].chunks))]]
       \/ /\ streams[c].wpc = "failed"
          /\ streams' = [streams EXCEPT ![c].pc = "returned"]
    /\ UNCHANGED <<window, codecVars, viewerVars, instances>>

\* the steps of the call of one caller
StreamStep(c) ==
    \/ Transform(c)
    \/ WriteSettled(c)
    \/ Flush(c)
    \/ CloseSettled(c)
    \/ Read(c)
    \/ ReturnCall(c)

StreamNext ==
    \/ Call
    \/ \E c \in Callers : Transform(c)
    \/ \E c \in Callers : WriteSettled(c)
    \/ \E c \in Callers : Flush(c)
    \/ \E c \in Callers : CloseSettled(c)
    \/ \E c \in Callers : Read(c)
    \/ \E c \in Callers : ReturnCall(c)

\* the helpers are called where the page has the streams
StreamInit == Init /\ window = {"CompressionStream", "DecompressionStream"}

StreamSpec == StreamInit /\ [][StreamNext]_vars

(***************************************************************************)
(* What a state shows.  The container is read back from the transport      *)
(* string alone.                                                           *)
(***************************************************************************)
Container == atob(blob).bytes
MetaLen == getUint32(Container)
MetaSegment == slice(Container, 4, 4 + MetaLen)
PayloadSegment == sliceFrom(Container, 4 + MetaLen)
WrittenMetadata == JSONparse(TextDecode(MetaSegment)).v

\* a class has decompressed what its own compress returned
OwnRoundTrip(class) ==
    pc = "decoded" /\ call.class = class /\ result.by = class

\* the tags that name the algorithm that made the payload
TagsOfPayload ==
    IF made.data = TextEncode(call.content) THEN {Str(S_none)}
    ELSE IF Gunzip(made.data).ok THEN {Str(S_gz), Str(S_gzip)}
    ELSE {Str(S_br)}

(***************************************************************************)
(* Properties                                                              *)
(***************************************************************************)
\* C1: round trip.  For every text and each of the four format tags, the
\* Fixed class and the Pako class (gz path and none path) decompress what
\* they compressed, and the content returned is the text, unit for unit.
C1_RoundTrip ==
    \A class \in {"Fixed", "Pako"} :
        OwnRoundTrip(class) /\ call.format \in KnownFormats
            => result.ok /\ result.content = call.content

\* C2: the Stream class decompresses every blob its own compress returned
\* and returns the text: the decoder is chosen by the metadata key under
\* which compress stored the tag.
C2_StreamRoundTrip ==
    OwnRoundTrip("Stream") => result.ok /\ result.content = call.content

\* C3: a well-framed container whose c is no supported tag, or that has no
\* c, makes decompress fail with an unsupported-compression error; content
\* is never returned for it.
C3_UnknownCodecRejected ==
    pc = "decoded" /\ blob \in UnknownCodecFragments
        => /\ ~result.ok
           /\ result.cause # <<>>
           /\ result.cause[1] \in {"Unsupported compression: ",
                                   "Unsupported compression type: "}

\* C4: an input whose length prefix exceeds the bytes that follow it, or
\* that has fewer than four bytes, fails with an invalid-metadata-length
\* error; nothing is returned from clamped slices.
C4_BadLengthRejected ==
    pc = "decoded" /\ blob \in BadLengthFragments \cup ShortFragments
        => /\ ~result.ok
           /\ \E i \in 1..Len(result.cause) :
                 result.cause[i] = "Invalid metadata length: "

\* C5: framing.  The container of every transport string compress returns
\* starts with the little-endian uint32 byte length of the metadata JSON,
\* followed by that JSON and then the payload, and nothing else.
C5_Framing ==
    pc = "encoded" =>
        LET metadataBytes == TextEncode(JSONstringify(made.metadata))
        IN  /\ atob(blob).ok
            /\ MetaLen = Len(metadataBytes)
            /\ Len(Container) = 4 + MetaLen + Len(made.data)
            /\ MetaSegment = metadataBytes
            /\ PayloadSegment = made.data

C5_Witness ==
    /\ pc = "encoded"
    /\ call.class = "Pako"
    /\ Gunzip(PayloadSegment).ok
    /\ MetaLen > 0
    /\ Len(Container) > 4 + MetaLen

\* C6: in every blob compress returns, on every path, the field cs is the
\* byte length of the payload segment.
C6_CompressedSize ==
    pc = "encoded" => Get(WrittenMetadata, K_cs) = Num(Len(PayloadSegment))

C6_Witness ==
    /\ pc = "encoded"
    /\ call.class \in {"Pako", "Stream"}
    /\ Len(PayloadSegment) > 0
    /\ Get(WrittenMetadata, K_cs) = Num(Len(PayloadSegment))
    /\ Get(WrittenMetadata, K_cs) # Get(WrittenMetadata, K_os)

\* C7: the field os that compress writes is the UTF-8 byte length of the
\* text, also for text with characters of more than one byte.
C7_OriginalSizeInBytes ==
    pc = "encoded" =>
        Get(WrittenMetadata, K_os) = Num(Len(TextEncode(call.content)))

\* C8: metadata integrity.  The metadata decompress returns for a blob of
\* its own compress has the f that was passed, also an unrecognised one, the
\* c of the path that made the payload, and v = 1.
C8_MetadataIntegrity ==
    \A class \in {"Fixed", "Stream", "Pako"} :
        OwnRoundTrip(class)
            => /\ result.ok
               /\ Get(result.metadata, K_f) = Str(call.format)
               /\ Get(result.metadata, K_c) \in TagsOfPayload
               /\ Get(result.metadata, K_v) = Num(1)

\* C9: the empty string.  compress("", "text") and then decompress succeeds
\* with content "" and os = 0, on the store path and on the gzip path of the
\* Fixed class and the Pako class.
C9_EmptyString ==
    \A class \in {"Fixed", "Pako"} :
        OwnRoundTrip(class) /\ call.content = <<>> /\ call.format = F_text
            => /\ result.ok
               /\ result.content = <<>>
               /\ Get(result.metadata, K_os) = Num(0)

C9_Witness ==
    /\ OwnRoundTrip("Pako")
    /\ call.content = <<>>
    /\ call.format = F_text
    /\ result.ok
    /\ Get(result.metadata, K_c) = Str(S_gz)
    /\ Get(result.metadata, K_os) = Num(0)

\* C10: one mapping for 'br'.  Where the browser has the stream classes,
\* every decompress decodes a 'br' blob that compress made (deflate-raw in
\* the Stream class) back to the text.
C10_BrotliOneMapping ==
    /\ pc = "decoded"
    /\ call.class = "Stream"
    /\ Get(made.metadata, K_c) = Str(S_br)
    /\ "DecompressionStream" \in window
    => result.ok /\ result.content = call.content

\* a part of an error's text
Has(text, part) == \E i \in 1..Len(text) : text[i] = part

\* the step of decompress that an error came from
FailedStep(cause) ==
    IF Has(cause, InvalidCharacterError[1]) THEN "base64"
    ELSE IF Has(cause, "Invalid metadata length: ") THEN "length"
    ELSE IF Has(cause, SyntaxError[1]) THEN "json"
    ELSE IF Has(cause, "Unsupported compression: ")
            \/ Has(cause, "Unsupported compression type: ") THEN "codec"
    ELSE "other"

\* what decompress of a class answers for a transport string
DecompressBy(class, encodedData) ==
    IF class = "Fixed" THEN Fixed_decompress(Fixed_constructor(window), encodedData)
    ELSE IF class = "Stream" THEN Stream_decompress(window, encodedData)
    ELSE Pako_decompress(Pako_constructor(window), window, "1.x", encodedData)

\* C11: decode failures are distinguishable.  When decompress of the Fixed or
\* the Pako class fails at one of the steps base64, length check, JSON parse
\* or codec tag, the error it raises differs from the error it raises for
\* any input that fails at another of these steps.
C11_FailuresDistinguishable ==
    /\ pc = "decoded"
    /\ result.by \in {"Fixed", "Pako"}
    /\ ~result.ok
    /\ FailedStep(result.cause) # "other"
    => \A other \in Fragments :
          LET r == DecompressBy(result.by, other)
          IN  /\ ~r.ok
              /\ FailedStep(r.cause) \notin {"other", FailedStep(result.cause)}
              => r.message # result.message

\* the texts that the whole payload segment decodes to, as it is or inflated
WholePayloadTexts ==
    {TextDecode(PayloadSegment)}
    \cup {TextDecode(x.bytes) :
            x \in {y \in {Gunzip(PayloadSegment), InflateRaw(PayloadSegment),
                          InflateZlib(PayloadSegment)} : y.ok}}

\* C12: decode is all or nothing.  decompress of the Fixed or the Stream
\* class either returns the text of the whole payload together with the
\* metadata parsed from the metadata segment, or throws and returns neither.
C12_AllOrNothing ==
    pc = "decoded" /\ result.by \in {"Fixed", "Stream"} =>
        IF result.ok
        THEN /\ atob(blob).ok
             /\ Len(Container) >= 4
             /\ JSONparse(TextDecode(MetaSegment)).ok
             /\ result.metadata = WrittenMetadata
             /\ result.content \in WholePayloadTexts
        ELSE /\ result.content = <<>>
             /\ result.metadata = Undefined
             /\ result.message # <<>>

C12_Witness ==
    /\ pc = "decoded"
    /\ result.by = "Fixed"
    /\ blob \in CorruptPayloadFragments
    /\ ~result.ok
    /\ result.cause = StreamDataError
    /\ result.content = <<>>

\* C13: when a step inside compress throws, compress raises the one generic
\* error 'Failed to compress content' whatever the cause, the cause's
\* message is no part of it, and no transport string is returned.
C13_CompressFailure ==
    pc = "failed" =>
        /\ result.message = <<"Failed to compress content">>
        /\ result.cause # <<>>
        /\ \A i \in 1..Len(result.cause) : ~Has(result.message, result.cause[i])
        /\ blob = <<>>
        /\ made = NoMade

C13_Witness ==
    /\ pc = "failed"
    /\ result.by = "Pako"
    /\ call.content # NullContent
    /\ result.cause = TypeErrorBigInt
    /\ result.message = <<"Failed to compress content">>

\* the compression primitive the class would use is absent from the page
PrimitiveUnavailable(class) ==
    IF class = "Pako" THEN "pako" \notin window
    ELSE "CompressionStream" \notin window

\* C14: when the compression primitive is unavailable (pako undefined for
\* the Pako class, CompressionStream absent for the Stream class), compress
\* does not fail: it stores the raw UTF-8 bytes with c = 'none', and the
\* result decodes back to the original content.
C14_FallbackStored ==
    \A class \in {"Pako", "Stream"} :
        /\ pc \in {"encoded", "decoded"}
        /\ call.class = class
        /\ PrimitiveUnavailable(class)
        => /\ made.data = TextEncode(call.content)
           /\ Get(made.metadata, K_c) = Str(S_none)
           /\ blob # <<>>
           /\ (pc = "decoded" /\ result.by = class
                  => result.ok /\ result.content = call.content)

\* the part of C14 that holds: the fallback stores the raw bytes under 'none'
C14_FallbackStoresRaw ==
    \A class \in {"Pako", "Stream"} :
        /\ pc \in {"encoded", "decoded"}
        /\ call.class = class
        /\ PrimitiveUnavailable(class)
        => /\ made.data = TextEncode(call.content)
           /\ Get(made.metadata, K_c) = Str(S_none)
           /\ blob # <<>>

\* C15: every container compress emits carries a c that is one of 'none',
\* 'gz' and 'br'; in the Stream class this holds for every pair of
\* capability flags its constructor can set.
C15_EmittedTag ==
    pc = "encoded" =>
        /\ Get(made.metadata, K_c) \in {Str(S_none), Str(S_gz), Str(S_br)}
        /\ Get(WrittenMetadata, K_c) = Get(made.metadata, K_c)

C15_Witness ==
    /\ pc = "encoded"
    /\ call.class = "Stream"
    /\ Stream_constructor(window).supportsGzip
    /\ Get(WrittenMetadata, K_c) = Str(S_br)

\* n is the integer nearest to (1 - cs / os) * 100, halves rounded up
IsRoundedRatio(n, os, cs) ==
    /\ os > 0
    /\ ((2 * n) - 1) * os <= 200 * (os - cs)
    /\ 200 * (os - cs) < ((2 * n) + 1) * os

\* r of the metadata is that integer for the os and cs written beside it
RatioIsInteger(metadata) ==
    /\ Get(metadata, K_r).t = "number"
    /\ IsRoundedRatio(Get(metadata, K_r).n,
                      Get(metadata, K_os).n, Get(metadata, K_cs).n)

\* C16: whenever compress populated r, the r that decompress returns is the
\* integer round((1 - cs / os) * 100), for every input, the empty string
\* (os = 0) included.
C16_RatioRoundTrip ==
    \A class \in {"Pako", "Stream"} :
        OwnRoundTrip(class) /\ Get(made.metadata, K_r) # Undefined
            => result.ok /\ RatioIsInteger(result.metadata)

\* the part of C16 that holds: the Pako class and a text that is not empty
C16_RatioOfNonEmpty ==
    OwnRoundTrip("Pako") /\ Get(made.metadata, K_r) # Undefined
                         /\ call.content # <<>>
        => result.ok /\ RatioIsInteger(result.metadata)

\* compress of a class, on an instance made in the page `win`
CompressBy(class, win, content, format, now) ==
    IF class = "Fixed" THEN Fixed_compress(content, format, now)
    ELSE IF class = "Stream"
    THEN Stream_compress(Stream_constructor(win), content, format, now)
    ELSE Pako_compress(Pako_constructor(win), content, format, now)

\* the fields of a metadata object other than ts, in their order
WithoutTs(metadata) == SelectSeq(metadata.o, LAMBDA p : p.k # K_ts)

\* the three parts of a container: the prefix read as a length, the
\* metadata it delimits, and the payload after it
PartsOf(bytes) ==
    [metaLen |-> getUint32(bytes),
     metadata |-> JSONparse(TextDecode(slice(bytes, 4, 4 + getUint32(bytes)))),
     payload |-> sliceFrom(bytes, 4 + getUint32(bytes))]

\* C17: compress is deterministic except for ts.  A second call with the
\* same text and format in the same page, at any time, returns a container
\* with the same payload bytes, the same metadata fields other than ts, and
\* a length prefix that again delimits the metadata; at the same time it
\* returns the same string.
C17_Deterministic ==
    pc = "encoded" =>
        \A now \in Times :
            With(CompressBy(call.class, window, call.content, call.format, now),
                 LAMBDA again :
            With(PartsOf(atob(again.transport).bytes), LAMBDA parts :
                /\ again.ok
                /\ again.data = made.data
                /\ WithoutTs(again.metadata) = WithoutTs(made.metadata)
                /\ parts.payload = PayloadSegment
                /\ parts.metadata.ok
                /\ WithoutTs(parts.metadata.v) = WithoutTs(WrittenMetadata)
                /\ (now = call.now => again.transport = blob)))

C17_Witness ==
    /\ pc = "encoded"
    /\ call.class = "Fixed"
    /\ call.content # <<>>
    /\ \E now \in Times :
          /\ now # call.now
          /\ CompressBy("Fixed", window, call.content, call.format, now).transport # blob

\* getStats measured the string that the compress of the same class returned
OwnStats(class) ==
    pc = "measured" /\ call.class = class /\ stats.by = class

\* C18: compressedSize of getStats is the byte length of the whole decoded
\* container, 4 + metadata length + payload length, so it exceeds the cs of
\* the metadata by exactly 4 + metaLen; originalSize is the UTF-8 byte
\* length of the text handed in, not the os of the metadata.
C18_StatsSizes ==
    /\ pc = "measured" /\ stats.ok
        => /\ stats.compressedSize = Len(Container)
           /\ stats.originalSize = Len(TextEncode(stats.original))
    /\ \A class \in {"Fixed", "Stream", "Pako"} :
          OwnStats(class)
              => /\ stats.ok
                 /\ stats.compressedSize = 4 + MetaLen + Len(PayloadSegment)
                 /\ PayloadSegment = made.data
                 /\ stats.compressedSize
                       = Get(WrittenMetadata, K_cs).n + 4 + MetaLen
                 /\ stats.originalSize = Len(TextEncode(call.content))

C18_Witness ==
    /\ OwnStats("Pako")
    /\ stats.ok
    /\ stats.originalSize # Get(WrittenMetadata, K_os).n
    /\ stats.compressedSize = Get(WrittenMetadata, K_cs).n + 4 + MetaLen

\* C19: for the string t that compress("") returned on any codec path,
\* getStats("", t) does not divide by zero: its ratio is 0 or undefined,
\* never NaN or an infinity, and it does not throw.
C19_EmptyStats ==
    \A class \in {"Fixed", "Stream"} :
        OwnStats(class) /\ call.content = <<>> /\ stats.original = <<>>
            => /\ stats.ok
               /\ stats.ratio \in {Num(0), Undefined}

\* the part of C19 that holds: getStats does not throw for the empty text
C19_EmptyStatsReturn ==
    \A class \in {"Fixed", "Stream"} :
        OwnStats(class) /\ call.content = <<>> /\ stats.original = <<>>
            => stats.ok /\ stats.originalSize = 0

\* a decimal number: digits, then perhaps a point and digits
IsNumberText(t) ==
    /\ t # <<>>
    /\ \A i \in 1..Len(t) : t[i] \in 48..57 \/ t[i] = 46
    /\ Cardinality({i \in 1..Len(t) : t[i] = 46}) <= 1
    /\ t[1] # 46 /\ t[Len(t)] # 46

\* a size as the 4-tier scale writes it: a number, a space and a unit
IsSizeText(t) ==
    \E i \in 1..Len(t) :
        /\ t[i] = 32
        /\ IsNumberText(SubSeq(t, 1, i - 1))
        /\ SubSeq(t, i + 1, Len(t)) \in {U_Bytes, U_KB, U_MB, U_GB}

\* C20: for every pair getStats accepts, readable.original,
\* readable.compressed and readable.saved are each a number and one unit of
\* Bytes/KB/MB/GB, a zero size being '0 Bytes'; also when the container is
\* larger than the text.
C20_ReadableSizes ==
    pc = "measured" /\ stats.by \in {"Fixed", "Pako"} /\ stats.ok
        => /\ IsSizeText(stats.readable.original)
           /\ IsSizeText(stats.readable.compressed)
           /\ IsSizeText(stats.readable.saved)
           /\ (stats.originalSize = 0
                  => stats.readable.original = <<48, 32>> \o U_Bytes)
           /\ (stats.originalSize = stats.compressedSize
                  => stats.readable.saved = <<48, 32>> \o U_Bytes)

\* the part of C20 that holds: the sizes themselves, and the saving when the
\* container is not larger than the text
C20_ReadableWhenNotLarger ==
    pc = "measured" /\ stats.by \in {"Fixed", "Pako"} /\ stats.ok
        => /\ IsSizeText(stats.readable.original)
           /\ IsSizeText(stats.readable.compressed)
           /\ (stats.originalSize >= stats.compressedSize
                  => IsSizeText(stats.readable.saved))
           /\ (stats.originalSize = 0
                  => stats.readable.original = <<48, 32>> \o U_Bytes)
           /\ (stats.originalSize = stats.compressedSize
                  => stats.readable.saved = <<48, 32>> \o U_Bytes)

(***************************************************************************)
(* What the viewer shows.                                                  *)
(***************************************************************************)
\* a load of the viewer called render: decompress returned
RenderCalled == lastSettled.by = "load" /\ lastSettled.via # "none"

\* the method the dispatch is said to select for a metadata
SaidStrategy(metadata) ==
    With(Get(metadata, K_f), LAMBDA f :
        IF f = Str(S_html) THEN "_renderHTML"
        ELSE IF f = Str(S_markdown) THEN "_renderMarkdown"
        ELSE IF f = Str(S_json) THEN "_renderJSON"
        ELSE "_renderText")

\* C21: render(content, metadata) selects the HTML method for f = 'html',
\* the Markdown method for 'markdown', the JSON method for 'json', the
\* plain-text method for 'text', and the plain-text method for every other
\* f, a missing or empty f included.
C21_FormatDispatch ==
    RenderCalled => lastSettled.via = SaidStrategy(lastSettled.metadata)

\* the part of C21 that holds: the four names, and the other non-empty
\* strings but 'md'
C21_NamedFormats ==
    /\ RenderCalled
    /\ Get(lastSettled.metadata, K_f).t = "string"
    /\ Get(lastSettled.metadata, K_f).s \notin {<<>>, S_md}
    => lastSettled.via = SaidStrategy(lastSettled.metadata)

\* s ends with t
EndsWith(s, t) ==
    /\ Len(t) <= Len(s)
    /\ SubSeq(s, Len(s) - Len(t) + 1, Len(s)) = t

\* the content container shows what the last load that ended rendered
ContentShown == dom.content /\ lastSettled.by = "load" /\ lastSettled.rendered.ok

\* C30: generateTOC returns a string that ends with the rendered content
\* unchanged, with a table of contents before it only when the content has
\* headings; so after a successful load the content container holds the
\* rendered content, also when it has no headings.
C30_ContentKept ==
    ContentShown
        => /\ EndsWith(dom.innerHTML, lastSettled.rendered.html)
           /\ (HeadingsOf(lastSettled.rendered.html) = {}
                  => dom.innerHTML = lastSettled.rendered.html)

\* the part of C30 that holds: a rendered content with headings is shown
\* whole, after its table of contents
C30_ContentKeptWithHeadings ==
    ContentShown /\ HeadingsOf(lastSettled.rendered.html) # {}
        => /\ EndsWith(dom.innerHTML, lastSettled.rendered.html)
           /\ Len(dom.innerHTML) > Len(lastSettled.rendered.html)

\* a fragment identifier without its leading #
StripHash(h) == IF h # <<>> /\ h[1] = HashSign THEN Tail(h) ELSE h

\* C22: on the initial load and on every hashchange the viewer reads
\* location.hash, strips the leading # and passes exactly the rest to
\* decompress; when the rest is empty it shows the help page and does not
\* call decompress.
C22_HashPassed ==
    [][(~started \/ location' # location)
          => IF StripHash(location') = <<>>
             THEN ~lastLoad'.called /\ dom'.last = "help"
             ELSE lastLoad' = [called |-> TRUE, arg |-> StripHash(location')]]_vars

\* a fragment was passed to decompress and its content is shown
C22_Witness ==
    /\ started
    /\ location # <<>>
    /\ lastLoad = [called |-> TRUE, arg |-> Tail(location)]
    /\ lastSettled.hash = lastLoad.arg
    /\ dom.content

\* the help page after an empty fragment
C22_HelpShown ==
    started /\ location = <<>> /\ ~lastLoad.called /\ dom.last = "help"

\* the fragments that compress of the viewer's codec wrote
ValidBlobs ==
    {ViewerBlob(t_a, S_html), ViewerBlob(t_heading, S_html),
     ViewerBlob(t_markdown, S_markdown), ViewerBlob(t_json, S_json),
     ViewerBlob(t_a, S_text)}

\* this step ends a load, the one lastSettled' tells of: the load of a new
\* fragment that waited for nothing, or a load that waited
SettledNow ==
    \/ /\ ~started \/ location' # location
       /\ Len(loads') = Len(loads)
       /\ StripHash(location') # <<>>
    \/ /\ location' = location
       /\ Len(loads') < Len(loads)

\* the error container is visible with a message, content and loading hidden
ErrorState(d) == d.error /\ ~d.content /\ ~d.loading /\ d.errorMessage # <<>>

\* what decompress or render threw is shown in the error state
FailureShown ==
    SettledNow /\ lastSettled'.via \in {"none", "throw"} => ErrorState(dom')

\* C23: every failure of decompress or render during a load leaves the
\* viewer in the error state (error visible with the message, content and
\* loading hidden), and from the error state a later hashchange with a valid
\* blob leads to the content state with that blob's content displayed.
C23_Recoverable ==
    [][/\ FailureShown
       /\ (/\ ErrorState(dom)
           /\ location' # location
           /\ StripHash(location') \in ValidBlobs
           /\ SettledNow)
          => /\ dom'.content /\ ~dom'.error /\ ~dom'.loading
             /\ lastSettled'.rendered.ok
             /\ EndsWith(dom'.innerHTML, lastSettled'.rendered.html)]_vars

\* the part of C23 that holds: failures are shown, and the load of a valid
\* blob after a failure reaches the content state
C23_ContentStateReached ==
    [][/\ FailureShown
       /\ (/\ ErrorState(dom)
           /\ location' # location
           /\ StripHash(location') \in ValidBlobs
           /\ SettledNow)
          => /\ dom'.content /\ ~dom'.error /\ ~dom'.loading
             /\ lastSettled'.rendered.ok]_vars

\* C27: when the fragment changes while an earlier load still waits for
\* decompress or render, then once every load has ended the viewer shows the
\* outcome of the most recent fragment, never that of an older load that
\* ended later.
C27_LatestShown ==
    started /\ loads = <<>> /\ lastSettled.by = "load"
        => lastSettled.hash = StripHash(location)

\* exactly one of the loading, content and error containers is visible
ExactlyOne(d) ==
    Cardinality({c \in {"loading", "content", "error"} : d[c]}) = 1

\* C28: after _setupContainers has written the containers and after every
\* completed _showLoading, _showContent, _showError and _showHelp exactly
\* one of the loading, content and error containers is visible; the metadata
\* panel is hidden after _showLoading, _showError and _showHelp: it is
\* visible in their states only by a later toggle.
C28_OneVisible ==
    /\ ExactlyOne(setupContainers) /\ ~setupContainers.metadata
    /\ [](started => ExactlyOne(dom))
    /\ [][/\ dom' # dom
           /\ dom'.last \in {"loading", "error", "help"}
           /\ dom'.metadata
          => /\ ~dom.metadata
             /\ dom' = [dom EXCEPT !.metadata = TRUE]]_vars

\* a load ended with _showContent: the content container alone is visible
C28_Witness ==
    /\ started
    /\ dom.last = "content" /\ dom.content /\ ~dom.loading /\ ~dom.error
    /\ lastSettled.rendered.ok

\* C29: every load that enters the loading state leaves it: once decompress
\* and render have settled the viewer is in the content state or in the
\* error state, also when _showContent throws while it writes the metadata
\* panel (a metadata without c or f); the loading container is not visible
\* when no load is in flight.
C29_LoadingLeft ==
    /\ [](started /\ loads = <<>> => ~dom.loading /\ (dom.content \/ dom.error))
    /\ [][SettledNow /\ Len(loads') = 0
            => ~dom'.loading /\ (dom'.content \/ dom'.error)]_vars

\* _showContent threw for a metadata without f, and the error is shown
C29_Witness ==
    /\ started
    /\ loads = <<>>
    /\ lastSettled.by = "load"
    /\ lastSettled.rendered.ok
    /\ Get(lastSettled.metadata, K_f) = Undefined
    /\ dom.last = "error" /\ dom.error /\ ~dom.loading
    /\ dom.errorMessage = TypeErrorToUpperCase

(***************************************************************************)
(* What the calls of the stream helpers do.                                *)
(***************************************************************************)
\* the output of a call that returned was complete: the reader had
\* signalled done and nothing was left in the stream
CompleteAfterDone(s) ==
    s.pc = "returned" /\ s.result.ok
        => s.rpc = "done" /\ s.queue = <<>> /\ s.flushed

\* C24: within one call all input is written to the stream and the stream
\* is closed before any output chunk is read, and the accumulated output is
\* taken for complete only after the reader signalled done; for
\* _streamDecompress and for _compressBrotli, _compressGzip,
\* _decompressBrotli and _decompressGzip.
C24_WriteCloseBeforeRead ==
    \A c \in Callers :
        /\ streams[c].chunks # <<>> => streams[c].wpc \in {"awaitClose", "done"}
        /\ CompleteAfterDone(streams[c])

\* the part of C24 that holds: the order in _streamDecompress, and the
\* completeness of the output of every helper
C24_StreamDecompressOrder ==
    \A c \in Callers :
        /\ streams[c].helper \in SequentialHelpers /\ streams[c].rpc # "none"
               => streams[c].wpc = "done"
        /\ CompleteAfterDone(streams[c])

\* C25: every stream decompression in flight completes or fails: a call of
\* _streamDecompress, which awaits writer.write and writer.close before its
\* first reader.read, never waits forever, also when the stream applies
\* backpressure (the write does not resolve until the readable side is
\* pulled): as long as the call has not returned, a step of it can be taken.
C25_NeverWaitsForever ==
    \A c \in Callers :
        streams[c].helper \in SequentialHelpers /\ streams[c].pc = "running"
            => ENABLED StreamStep(c)

\* the part of C25 that holds: without backpressure the call goes on until
\* it returns, and the helpers that read while they write always do
C25_NeverWaitsWithoutBackpressure ==
    \A c \in Callers :
        /\ streams[c].pc = "running"
        /\ ~streams[c].backpressure \/ streams[c].helper \in ConcurrentHelpers
        => ENABLED StreamStep(c)

\* what the helper returns for the input when it is called alone: the value
\* of the codec, or its error
Alone(helper, input) ==
    IF helper = "_compressBrotli"
    THEN [ok |-> TRUE, value |-> Stream_compressBrotli(input)]
    ELSE IF helper = "_compressGzip"
    THEN [ok |-> TRUE, value |-> Stream_compressGzip(input)]
    ELSE IF helper = "_decompressBrotli"
    THEN [ok |-> Stream_decompressBrotli(window, input).ok,
          value |-> Stream_decompressBrotli(window, input).data]
    ELSE IF helper = "_decompressGzip"
    THEN [ok |-> Stream_decompressGzip(window, input).ok,
          value |-> Stream_decompressGzip(window, input).data]
    ELSE [ok |-> Gunzip(input).ok, value |-> Gunzip(input).bytes]

\* C26: calls on the same codec instance that interleave at their awaits
\* are independent: each returns what it would return when run alone, and
\* no call writes a field of the instance: the flags the constructor set
\* stay as they were.
C26_Independent ==
    /\ instances = [fixed |-> Fixed_constructor(window),
                    stream |-> Stream_constructor(window)]
    /\ \A c \in Callers :
          streams[c].pc = "returned"
              => streams[c].result = Alone(streams[c].helper, streams[c].input)

\* a call returned its value while the other call, which had read a chunk
\* of its own already, was still in flight
C26_Witness ==
    /\ streams["first"].pc = "returned"
    /\ streams["first"].result.ok
    /\ streams["first"].result.value # <<>>
    /\ streams["second"].pc = "running"
    /\ streams["second"].chunks # <<>>
    /\ streams["second"].queue # <<>>

====
